---- MODULE Spec2Model ----
(***************************************************************************)
(* A model of msifrc2lt.py, the converter of MSI ".frc" force-field files. *)
(*                                                                         *)
(* Strings are TLA+ strings, handled with Len, SubSeq and \o, so that      *)
(* indexing, slicing, concatenation and lexicographic comparison are those *)
(* of the Python code.  A Python list is a TLA+ sequence (Python index k   *)
(* is TLA+ index k+1).  A call that can raise returns a record             *)
(* [err, val]: err = "" and the value, or the name of the exception.       *)
(*                                                                         *)
(* msifrc2lt.py is an unfinished draft.  Where a statement has one evident *)
(* reading in spite of a slip of syntax (a missing ':' after a def, a      *)
(* doubled ')', "[0:4]" for the index list 0..3, "if x = -1"), the model   *)
(* follows that reading.  Everything else is taken as written: wrong       *)
(* section strings, wrong indices, wrong comparisons, the missing comma in *)
(* allowed_section_names.                                                  *)
(*                                                                         *)
(* The file imports nothing and reads names it never binds (sys, Set,      *)
(* DefaultDict, bond2r0, angle2theta0, ReverseIfEnd, ImCrossTermID,        *)
(* bond2params, ...), calls DeterminePriority with one argument and        *)
(* unpacks pairs into one target.  As it stands, main raises at its first  *)
(* statement, which reads sys.                                             *)
(* What such a statement does depends on how the draft is completed, so    *)
(* the model draws it once, in the variable "resolved":                    *)
(*   resolved = FALSE  the file as it stands: the first such statement     *)
(*                     reached raises (NameError, TypeError, ValueError);  *)
(*   resolved = TRUE   each such name denotes the like-named object of the *)
(*                     file (defaultdict, ReverseIfEnds, ImCrossTermIDs,   *)
(*                     bond2param, ...) or a table created empty with the  *)
(*                     others, the unused parameter is_auto may be left    *)
(*                     out, and "x, = f()" takes the first component.      *)
(* The free name "a" of DeterminePriority has no like-named object: its    *)
(* binding is the variable a.                                              *)
(***************************************************************************)
EXTENDS Integers, Sequences, FiniteSets, TLC

VARIABLES
  resolved,     \* how the draft's unbound names are completed (see above)
  a,            \* the binding of the free name "a" read by DeterminePriority
  pc,           \* position of the run
  err,          \* "" or the exception that ended the run
  fn_name,      \* the function applied (function specifications)
  fn_args,      \* its argument
  fn_ret,       \* its result
  \* the command line and the input file
  include_auto_equivalences,
  type_subset,          \* the atom types of the argument -atoms
  lines,
  \* the locals of the reading loop
  iline,
  section_name,
  section_is_auto,
  icol,                 \* icol_type, icol_mass, icol_elem, icol_nbond, icol_comment
  aorig,                \* [bound, val]: unbound until a handler assigns it
  order_reversed,       \* [bound, val]
  lines_equivalences,
  lines_auto_equivalences,
  display_OOP_OOP_warning,
  display_torsion_torsion_1_warning,
  stderr,               \* the warnings written
  stdout,               \* the converted output written
  \* the tables: a dict is a sequence of <<key, value>> in insertion order
  atom2mass, atom2element, atom2numbonds, atom2descr, atom2ffid,
  pair2style, pair2params, pair_mixing_style,
  bond_increments,
  bond2r0, bond2style, bond2params,
  angle2style, angle2params, angle2class2_bb, angle2params_ba,
  dihedral2style, dihedral2params, dihedral2params_mbt, dihedral2class2_ebt,
  dihedral2class2_at, dihedral2class2_aat, dihedral2class2_bb13,
  improper2style, improper2params, improper_symmetry_subgraph,
  bond2priority,        \* values are <<is_auto, n>>
  angle2priority,
  dihedral2priority,
  improper2priority,
  angle2theta0,
  dihedral2sym_ebt,
  dihedral2sym_at,
  dihedral2sym_aat,
  dihedral2sym_bb13,
  improper2cross,       \* dict of dicts
  improper2class2_aa,
  improper2sym,         \* dict of sets of leaf positions
  bond_names_priority_high_to_low,      \* the sorted items
  angle_names_priority_high_to_low,
  dihedral_names_priority_high_to_low,
  improper_names_priority_high_to_low

fnvars == <<fn_name, fn_args, fn_ret>>

inputvars == <<include_auto_equivalences, type_subset, lines>>

loopvars == <<iline, section_name, section_is_auto, icol, aorig, order_reversed,
              lines_equivalences, lines_auto_equivalences,
              display_OOP_OOP_warning, display_torsion_torsion_1_warning>>

paramvars == <<atom2mass, atom2element, atom2numbonds, atom2descr,
               pair2style, pair2params, pair_mixing_style, bond_increments,
               bond2r0, bond2style, bond2params,
               angle2style, angle2params, angle2class2_bb, angle2params_ba,
               dihedral2style, dihedral2params, dihedral2params_mbt,
               dihedral2class2_ebt, dihedral2class2_at, dihedral2class2_aat,
               dihedral2class2_bb13,
               improper2style, improper2params, improper_symmetry_subgraph>>

priovars == <<bond2priority, angle2priority, dihedral2priority, improper2priority>>

symvars == <<dihedral2sym_ebt, dihedral2sym_at, dihedral2sym_aat, dihedral2sym_bb13>>

sortvars == <<bond_names_priority_high_to_low, angle_names_priority_high_to_low,
              dihedral_names_priority_high_to_low, improper_names_priority_high_to_low>>

vars == <<resolved, a, pc, err, fnvars, inputvars, loopvars, stderr, stdout, paramvars,
          atom2ffid, priovars, angle2theta0, symvars, improper2cross,
          improper2class2_aa, improper2sym, sortvars>>

\* The state of main other than the priority tables and the sorted items.
mainvars == <<inputvars, loopvars, stderr, stdout, paramvars, atom2ffid, angle2theta0,
              symvars, improper2cross, improper2class2_aa, improper2sym>>

-----------------------------------------------------------------------------
(* Bounds of the model.                                                    *)

\* The largest numeric priority drawn for a record of a priority table.
MaxPriority == 2

-----------------------------------------------------------------------------
(* Python values.                                                          *)

Ret(v) == [err |-> "", val |-> v]

\* The value of a failed call is never read.
Raise(e) == [err |-> e, val |-> ""]

\* The exception of the first call of a sequence of calls that raised.
FirstErr(rs) ==
  IF \E i \in 1..Len(rs) : rs[i].err # ""
  THEN rs[CHOOSE i \in 1..Len(rs) :
            rs[i].err # "" /\ \A j \in 1..(i - 1) : rs[j].err = ""].err
  ELSE ""

\* A local that no statement has assigned yet, and one that holds v.
Unbound == [bound |-> FALSE, val |-> <<>>]

Bound(v) == [bound |-> TRUE, val |-> v]

\* Python's None, where a string is expected.
None == "<None>"

\* seq[i] of Python, i >= 0: IndexError past the end.
PyIndex(seq, i) ==
  IF i >= 0 /\ i < Len(seq) THEN Ret(seq[i + 1])
  ELSE IF i < 0 /\ -i <= Len(seq) THEN Ret(seq[Len(seq) + i + 1])
  ELSE Raise("IndexError")

\* seq[i:j] of Python for 0 <= i <= j: a slice never raises.
PySlice(seq, i, j) == SubSeq(seq, i + 1, IF j < Len(seq) THEN j ELSE Len(seq))

\* seq[i:] of Python.
PyFrom(seq, i) == SubSeq(seq, i + 1, Len(seq))

Reverse(seq) == [i \in 1..Len(seq) |-> seq[Len(seq) + 1 - i]]

\* The printable characters from ' ' (32) to '_' (95) and from 'a' (97) to
\* '~' (126), in code order.
CharsLo == " !\"#$%&'()*+,-./0123456789:;<=>?@ABCDEFGHIJKLMNOPQRSTUVWXYZ[\\]^_"

CharsHi == "abcdefghijklmnopqrstuvwxyz{|}~"

\* ord(c) of a one-character string.
Ord(c) ==
  IF \E i \in 1..Len(CharsLo) : SubSeq(CharsLo, i, i) = c
  THEN 31 + (CHOOSE i \in 1..Len(CharsLo) : SubSeq(CharsLo, i, i) = c)
  ELSE 96 + (CHOOSE i \in 1..Len(CharsHi) : SubSeq(CharsHi, i, i) = c)

\* s < t on Python strings: lexicographic by character code.
RECURSIVE StrLess(_, _)
StrLess(s, t) ==
  IF Len(t) = 0 THEN FALSE
  ELSE IF Len(s) = 0 THEN TRUE
  ELSE IF SubSeq(s, 1, 1) = SubSeq(t, 1, 1)
       THEN StrLess(SubSeq(s, 2, Len(s)), SubSeq(t, 2, Len(t)))
       ELSE Ord(SubSeq(s, 1, 1)) < Ord(SubSeq(t, 1, 1))

StrLeq(s, t) == s = t \/ StrLess(s, t)

\* s.replace(old, new) for a one-character old.
RECURSIVE StrReplace(_, _, _)
StrReplace(s, old, new) ==
  IF Len(s) = 0 THEN ""
  ELSE (IF SubSeq(s, 1, 1) = old THEN new ELSE SubSeq(s, 1, 1))
       \o StrReplace(SubSeq(s, 2, Len(s)), old, new)

\* sep.join(l)
RECURSIVE StrJoin(_, _)
StrJoin(l, sep) ==
  IF Len(l) = 0 THEN ""
  ELSE IF Len(l) = 1 THEN l[1]
  ELSE l[1] \o sep \o StrJoin(Tail(l), sep)

\* s.find(sub) == 0
StartsWith(s, sub) == Len(s) >= Len(sub) /\ SubSeq(s, 1, Len(sub)) = sub

\* s.split(sep) for a one-character sep.
RECURSIVE StrSplitAcc(_, _, _)
StrSplitAcc(s, sep, cur) ==
  IF Len(s) = 0 THEN <<cur>>
  ELSE IF SubSeq(s, 1, 1) = sep
       THEN <<cur>> \o StrSplitAcc(SubSeq(s, 2, Len(s)), sep, "")
       ELSE StrSplitAcc(SubSeq(s, 2, Len(s)), sep, cur \o SubSeq(s, 1, 1))

StrSplit(s, sep) == StrSplitAcc(s, sep, "")

\* str(n) for 0 <= n <= 99.
Digits == "0123456789"

StrOfNat(n) ==
  IF n < 10 THEN SubSeq(Digits, n + 1, n + 1)
  ELSE SubSeq(Digits, (n \div 10) + 1, (n \div 10) + 1)
       \o SubSeq(Digits, (n % 10) + 1, (n % 10) + 1)

\* float(s): the value in thousandths of a string "d+" or "d+.d*" with at
\* most three decimals, ValueError for any other string.
IsDigitStr(s) ==
  \A i \in 1..Len(s) : \E d \in 1..Len(Digits) : SubSeq(s, i, i) = SubSeq(Digits, d, d)

RECURSIVE DigitsVal(_, _)
DigitsVal(s, acc) ==
  IF Len(s) = 0 THEN acc
  ELSE DigitsVal(SubSeq(s, 2, Len(s)), 10 * acc + (Ord(SubSeq(s, 1, 1)) - Ord("0")))

PyFloat(s) ==
  LET parts == StrSplit(s, ".")
      ip    == parts[1]
      fp    == IF Len(parts) = 2 THEN parts[2] ELSE ""
      pad   == SubSeq("000", 1, 3 - Len(fp))
  IN  IF /\ Len(parts) <= 2
         /\ Len(ip) > 0 /\ IsDigitStr(ip)
         /\ Len(fp) <= 3 /\ IsDigitStr(fp)
      THEN Ret(1000 * DigitsVal(ip, 0) + DigitsVal(fp \o pad, 0))
      ELSE Raise("ValueError")

\* Python dicts: a sequence of <<key, value>> items in insertion order.
DictHas(d, k) == \E i \in 1..Len(d) : d[i][1] = k

\* d[k]
DictGet(d, k) ==
  IF DictHas(d, k)
  THEN Ret(d[CHOOSE i \in 1..Len(d) : d[i][1] = k][2])
  ELSE Raise("KeyError")

\* d[k] = v
DictPut(d, k, v) ==
  IF DictHas(d, k)
  THEN [i \in 1..Len(d) |-> IF d[i][1] = k THEN <<k, v>> ELSE d[i]]
  ELSE Append(d, <<k, v>>)

DictKeys(d) == [i \in 1..Len(d) |-> d[i][1]]

-----------------------------------------------------------------------------
(* Lexer.                                                                  *)

\* c in chars, for a character c and a string of characters.
InStr(c, chars) == \E i \in 1..Len(chars) : SubSeq(chars, i, i) = c

\* The whitespace of str.strip() and str.split().
Whitespace == " \t\n\r\f"

RECURSIVE LStrip(_)
LStrip(s) ==
  IF Len(s) > 0 /\ InStr(SubSeq(s, 1, 1), Whitespace)
  THEN LStrip(SubSeq(s, 2, Len(s))) ELSE s

RECURSIVE RStrip(_)
RStrip(s) ==
  IF Len(s) > 0 /\ InStr(SubSeq(s, Len(s), Len(s)), Whitespace)
  THEN RStrip(SubSeq(s, 1, Len(s) - 1)) ELSE s

\* s.strip()
Strip(s) == RStrip(LStrip(s))

\* s.split(): the maximal runs of non-whitespace.
RECURSIVE WsSplitAcc(_, _)
WsSplitAcc(s, cur) ==
  IF Len(s) = 0 THEN (IF cur = "" THEN <<>> ELSE <<cur>>)
  ELSE IF InStr(SubSeq(s, 1, 1), Whitespace)
       THEN (IF cur = "" THEN <<>> ELSE <<cur>>) \o WsSplitAcc(SubSeq(s, 2, Len(s)), "")
       ELSE WsSplitAcc(SubSeq(s, 2, Len(s)), cur \o SubSeq(s, 1, 1))

WsSplit(s) == WsSplitAcc(s, "")

\* s.lower()
RECURSIVE Lower(_)
Lower(s) ==
  IF Len(s) = 0 THEN ""
  ELSE LET c == SubSeq(s, 1, 1)
           n == Ord(c)
       IN  (IF n >= 65 /\ n <= 90 THEN SubSeq(CharsHi, n - 64, n - 64) ELSE c)
           \o Lower(SubSeq(s, 2, Len(s)))

\* s.find(sub) == 0
FindAt0(s, sub) == StartsWith(s, sub)

\* The defaults of the lexer's parameters.
DefaultQuotes == "'\""

DefaultDelimiters == " \t\r\f\n"

DefaultEscape == "\\"

\* The locals of NSplitQuotedString before its loop; returned is set when the
\* loop meets a comment character and returns.
LexInit ==
  [tokens |-> <<>>, token |-> "", reading_token |-> TRUE,
   escaped_state |-> FALSE, quote_state |-> None, returned |-> FALSE]

\* One turn of the loop with a delimiter test that does not look at the
\* quote state: a delimiter inside quotes ends the token.
LexCharQuoteBlind(st, c, nmax, quotes, delimiters, escape, comment_char) ==
  IF InStr(c, comment_char) /\ ~st.escaped_state /\ st.quote_state = None
  THEN [st EXCEPT !.tokens = Append(@, st.token), !.returned = TRUE]
  ELSE IF InStr(c, delimiters) /\ ~st.escaped_state
  THEN IF st.reading_token
       THEN IF nmax > 0 /\ Len(st.tokens) < nmax - 1
            THEN [st EXCEPT !.tokens = Append(@, st.token), !.token = "",
                            !.reading_token = FALSE]
            ELSE [st EXCEPT !.token = @ \o c]
       ELSE st
  ELSE IF InStr(c, escape)
  THEN IF st.escaped_state
       THEN [st EXCEPT !.token = @ \o c, !.reading_token = TRUE,
                       !.escaped_state = FALSE]
       ELSE [st EXCEPT !.escaped_state = TRUE]
  ELSE IF InStr(c, quotes) /\ ~st.escaped_state
  THEN [st EXCEPT !.quote_state = IF @ # None THEN (IF c = @ THEN None ELSE @)
                                  ELSE c,
                  !.token = @ \o c, !.reading_token = TRUE]
  ELSE [st EXCEPT !.token = @ \o c, !.reading_token = TRUE,
                  !.escaped_state = FALSE]

\* One turn of the loop of NSplitQuotedString, for the character c.
LexChar(st, c, nmax, quotes, delimiters, escape, comment_char) ==
  IF InStr(c, comment_char) /\ ~st.escaped_state /\ st.quote_state = None
  THEN [st EXCEPT !.tokens = Append(@, st.token), !.returned = TRUE]
  ELSE IF InStr(c, delimiters) /\ ~st.escaped_state /\ st.quote_state = None
  THEN IF st.reading_token
       THEN IF nmax > 0 /\ Len(st.tokens) < nmax - 1
            THEN [st EXCEPT !.tokens = Append(@, st.token), !.token = "",
                            !.reading_token = FALSE]
            ELSE [st EXCEPT !.token = @ \o c]
       ELSE st
  ELSE IF InStr(c, escape)
  THEN IF st.escaped_state
       THEN [st EXCEPT !.token = @ \o c, !.reading_token = TRUE,
                       !.escaped_state = FALSE]
       ELSE [st EXCEPT !.escaped_state = TRUE]
  ELSE IF InStr(c, quotes) /\ ~st.escaped_state
  THEN [st EXCEPT !.quote_state = IF @ # None THEN (IF c = @ THEN None ELSE @)
                                  ELSE c,
                  !.token = @ \o c, !.reading_token = TRUE]
  ELSE LET c2 == IF c = "n" /\ st.escaped_state THEN "\n"
                 ELSE IF c = "t" /\ st.escaped_state THEN "\t"
                 ELSE IF c = "r" /\ st.escaped_state THEN "\r"
                 ELSE IF c = "f" /\ st.escaped_state THEN "\f"
                 ELSE c
       IN  [st EXCEPT !.token = @ \o c2, !.reading_token = TRUE,
                      !.escaped_state = FALSE]

\* for c in string: ...
RECURSIVE LexLoop(_, _, _, _, _, _, _, _)
LexLoop(string, i, st, nmax, quotes, delimiters, escape, comment_char) ==
  IF i > Len(string) \/ st.returned THEN st
  ELSE LexLoop(string, i + 1,
               LexChar(st, SubSeq(string, i, i), nmax, quotes, delimiters,
                       escape, comment_char),
               nmax, quotes, delimiters, escape, comment_char)

\* NSplitQuotedString
NSplitQuotedString(string, nmax, quotes, delimiters, escape, comment_char) ==
  LET st == LexLoop(string, 1, LexInit, nmax, quotes, delimiters, escape,
                    comment_char)
  IN  IF st.returned THEN st.tokens
      ELSE IF Len(string) > 0 THEN Append(st.tokens, st.token)
      ELSE st.tokens

\* SplitQuotedString
SplitQuotedString(string, quotes, delimiters, escape, comment_char) ==
  NSplitQuotedString(string, 0, quotes, delimiters, escape, comment_char)

\* RemoveOuterQuotes, with its default quotes.
RemoveOuterQuotes(text) ==
  IF Len(text) >= 2 /\ InStr(SubSeq(text, 1, 1), "\"'")
     /\ SubSeq(text, Len(text), Len(text)) = SubSeq(text, 1, 1)
  THEN SubSeq(text, 2, Len(text) - 1)
  ELSE text

-----------------------------------------------------------------------------
(* Key canonicalizer.                                                      *)

\* ReverseIfEnds: a copy of the list, reversed when its first entry is
\* greater than its last.
ReverseIfEnds(l_orig) ==
  IF StrLess(l_orig[Len(l_orig)], l_orig[1]) THEN Reverse(l_orig) ELSE l_orig

\* EncodeAName: a name that begins with '*' is the wildcard 'X'; a '*'
\* further on is escaped.
EncodeAName(s) ==
  IF PySlice(s, 0, 1) = "*" THEN "X" ELSE StrReplace(s, "*", "\\*")

\* map(f, l)
MapEncodeAName(l) == [i \in 1..Len(l) |-> EncodeAName(l[i])]

\* The same with the names left in place when the first and the last are
\* equal.
OOPImproperNameSortKeepsEqual(aorig0) ==
  LET atom_names == MapEncodeAName(aorig0)
  IN  IF StrLeq(atom_names[1], atom_names[4])
      THEN Ret(<<atom_names, <<0, 1, 2, 3>>>>)
      ELSE Ret(<<<<atom_names[4], atom_names[2], atom_names[3], atom_names[1]>>,
                 <<3, 1, 2, 0>>>>)

\* OOPImproperNameSort: compares encoded positions 0 and 3 only.
OOPImproperNameSort(aorig0) ==
  LET atom_names == MapEncodeAName(aorig0)
  IN  IF StrLess(atom_names[1], atom_names[4])
      THEN Ret(<<atom_names, <<0, 1, 2, 3>>>>)
      ELSE Ret(<<<<atom_names[4], atom_names[2], atom_names[3], atom_names[1]>>,
                 <<3, 1, 2, 0>>>>)

\* (name, index) pairs in Python's tuple order.
PairLess(p, q) == StrLess(p[1], q[1]) \/ (p[1] = q[1] /\ p[2] < q[2])

\* Class2ImproperNameSort: sorts the three (leaf name, position) pairs, then
\* reads entries 0, 2 and 3 of that three-entry list.
Class2ImproperNameSort(aorig0) ==
  LET atom_names == MapEncodeAName(aorig0)
      z  == SortSeq(<<<<atom_names[1], 0>>, <<atom_names[3], 2>>,
                      <<atom_names[4], 3>>>>, PairLess)
      z0 == PyIndex(z, 0)
      z2 == PyIndex(z, 2)
      z3 == PyIndex(z, 3)
  IN  IF z0.err # "" THEN Raise(z0.err)
      ELSE IF z2.err # "" THEN Raise(z2.err)
      ELSE IF z3.err # "" THEN Raise(z3.err)
      ELSE Ret(<<<<z0.val[1], atom_names[2], z2.val[1], z3.val[1]>>,
                 <<z0.val[2], 1, z2.val[2], z3.val[2]>>>>)

-----------------------------------------------------------------------------
(* Priority resolver.                                                      *)

\* The values the free name "a" can be bound to: nothing, a value that is
\* no list, or a list.
AUnbound == [bound |-> FALSE, islist |-> FALSE, list |-> <<>>]

ANoList == [bound |-> TRUE, islist |-> FALSE, list |-> <<>>]

AList(l) == [bound |-> TRUE, islist |-> TRUE, list |-> l]

\* int(x) of a list x raises TypeError.
IntOfList(x) == Raise("TypeError")

\* The local n of DeterminePriority: None, or an integer.
NNone == [set |-> FALSE, v |-> 0]

NInt(v) == [set |-> TRUE, v |-> v]

\* The loop of DeterminePriority from turn i on.  "anames[:1] == a" compares
\* the list of the first name with the free name a; on a match
\* int(anames[1:]) is int() of a list.
RECURSIVE DeterminePriorityLoop(_, _, _)
DeterminePriorityLoop(anames, i, n) ==
  IF i >= Len(anames)
  THEN (IF ~n.set THEN Ret(0) ELSE Ret(n.v))
  ELSE IF ~a.bound THEN Raise("NameError")
  ELSE IF a.islist /\ a.list = PySlice(anames, 0, 1)
       THEN LET v == IntOfList(PyFrom(anames, 1))
            IN  IF v.err # "" THEN Raise(v.err)
                ELSE IF ~n.set THEN DeterminePriorityLoop(anames, i + 1, NInt(v.val))
                ELSE IF n.v # v.val
                     THEN Raise("Inconsistent priority integers")
                     ELSE DeterminePriorityLoop(anames, i + 1, n)
       ELSE DeterminePriorityLoop(anames, i + 1, n)

\* DeterminePriority (is_auto is not used by the body).
DeterminePriority(anames, is_auto) == DeterminePriorityLoop(anames, 0, NNone)

\* IsAutoInteraction
IsAutoInteraction(interaction_name) == StartsWith(interaction_name, "auto")

\* EncodeInteractionName
EncodeInteractionName(anames, is_auto) ==
  IF is_auto
  THEN LET priority == DeterminePriority(anames, is_auto)
       IN  IF priority.err # "" THEN Raise(priority.err)
           ELSE Ret("auto" \o StrOfNat(priority.val) \o StrJoin(anames, ","))
  ELSE Ret(StrJoin(anames, ","))

\* ExtractANames
ExtractANames(interaction_name) ==
  IF IsAutoInteraction(interaction_name)
  THEN StrSplit(PyFrom(interaction_name, 5), ",")
  ELSE StrSplit(interaction_name, ",")

-----------------------------------------------------------------------------
(* Cross-term assembler: the checks made once every line is read.          *)

\* ImCrossTermIDs (read under the name ImCrossTermID): the cross-term name
\* is built in a local and the function ends without a return statement.
ImCrossTermIDs(atom_names) ==
  IF StrLeq(atom_names[1], atom_names[4])
  THEN LET cross_name == atom_names[1] \o "," \o atom_names[2] \o "," \o
                         atom_names[3] \o "," \o atom_names[4]
       IN  None
  ELSE None

\* "x and y and ..." over table look-ups: a look-up is made only when all
\* before it are true, and a missing key raises KeyError.
RECURSIVE AndLookups(_, _)
AndLookups(tables, key) ==
  IF Len(tables) = 0 THEN Ret(TRUE)
  ELSE LET r == DictGet(tables[1], key)
       IN  IF r.err # "" THEN Raise(r.err)
           ELSE IF ~r.val THEN Ret(FALSE)
           ELSE AndLookups(Tail(tables), key)

\* One turn of the loop over dihedral2sym_at.
DihedralSymmetryOf(dihedral_name) ==
  LET anames == ExtractANames(dihedral_name)
      sym    == AndLookups(<<dihedral2sym_ebt, dihedral2sym_at,
                             dihedral2sym_aat, dihedral2sym_bb13>>, dihedral_name)
  IN  IF sym.err # "" THEN sym.err
      ELSE IF sym.val THEN ""
      ELSE IF Len(anames) < 4 THEN "IndexError"
      ELSE IF anames[1] = anames[4] /\ anames[2] = anames[3]
           THEN "Unsupported dihedral interaction"
           ELSE ""

\* for dihedral_name in dihedral2sym_at: ...
RECURSIVE DihedralSymmetryLoop(_)
DihedralSymmetryLoop(names) ==
  IF Len(names) = 0 THEN ""
  ELSE LET e == DihedralSymmetryOf(names[1])
       IN  IF e # "" THEN e ELSE DihedralSymmetryLoop(Tail(names))

\* The dihedral symmetry check.  dihedral2sym_at is a name the file never
\* binds.
CheckDihedralSymmetry ==
  /\ pc = "dihedral"
  /\ err' = IF ~resolved THEN "NameError"
            ELSE DihedralSymmetryLoop(DictKeys(dihedral2sym_at))
  /\ pc' = IF err' # "" THEN "abort" ELSE "improper"
  /\ UNCHANGED <<resolved, a, fnvars, inputvars, loopvars, stderr, stdout, paramvars,
                 atom2ffid, priovars, angle2theta0, symvars, improper2cross,
                 improper2class2_aa, improper2sym, sortvars>>

\* The neighbour leaves of the i-th leaf: i_neigh of the file.
noti3 == <<<<1, 2>>, <<0, 2>>, <<0, 1>>>>

i_neigh ==
  [i \in 1..3 |-> << <<0, 2, 3>>[noti3[i][1] + 1], <<0, 2, 3>>[noti3[i][2] + 1] >>]

\* table[name] for the result name of EncodeInteractionName.
LookupNamed(table, name) ==
  IF name.err # "" THEN Raise(name.err) ELSE DictGet(table, name.val)

\* The equilibrium angle of the triple l: the look-up in angle2theta0 of its
\* canonical key.
Theta0Of(l, is_auto) ==
  LookupNamed(angle2theta0, EncodeInteractionName(ReverseIfEnds(l), is_auto))

\* float(r) for the result r of a look-up.
FloatOf(r) == IF r.err # "" THEN r ELSE PyFloat(r.val)

RECURSIVE ImproperSymmetryLoop(_, _, _, _, _)
ImproperSymmetryLoop(anames, M, theta0, i, sym) ==
  IF i >= 3 THEN Ret(sym)
  ELSE
    LET n0 == i_neigh[i + 1][1]
        n1 == i_neigh[i + 1][2]
        m0 == PyIndex(M, n0)
        m1 == PyIndex(M, n1)
        t1 == PyIndex(theta0, n1)
    IN  IF m0.err # "" THEN [err |-> m0.err, val |-> sym]
        ELSE IF m1.err # "" THEN [err |-> m1.err, val |-> sym]
        ELSE IF m0.val = m1.val /\ t1.err # "" THEN [err |-> t1.err, val |-> sym]
        ELSE IF m0.val = m1.val /\ t1.val = t1.val
             THEN ImproperSymmetryLoop(anames, M, theta0, i + 1, sym \cup {n0, n1})
             ELSE IF anames[n0 + 1] = anames[n1 + 1]
                  THEN [err |-> "Unsupported improper interaction", val |-> sym]
                  ELSE ImproperSymmetryLoop(anames, M, theta0, i + 1, sym)

\* The look-ups of one turn of the loop over improper2cross, in the order of
\* the statements: M1, M2, M3, theta01, theta02, theta03, then for i = 0, 1, 2
\* the cross coefficient M[i] and the angle theta0[i] of
\* (neighbour, anames[i], neighbour).
ImproperLookups(anames, cross, is_auto) ==
  LET Hub(i, j, k) == <<anames[i + 1], anames[j + 1], anames[k + 1]>>
      Cross(i, j, k, l) ==
        DictGet(cross, ImCrossTermIDs(<<anames[i + 1], anames[j + 1],
                                        anames[k + 1], anames[l + 1]>>))
      Mi(i) == FloatOf(Cross(i_neigh[i + 1][1], 1, <<0, 2, 3>>[i + 1],
                             i_neigh[i + 1][2]))
      Ti(i) == FloatOf(Theta0Of(Hub(i_neigh[i + 1][1], i, i_neigh[i + 1][2]),
                                is_auto))
  IN  <<Cross(0, 1, 2, 3), Cross(2, 1, 0, 3), Cross(0, 1, 3, 2),
        Theta0Of(Hub(0, 1, 2), is_auto), Theta0Of(Hub(0, 1, 3), is_auto),
        Theta0Of(Hub(2, 1, 3), is_auto)>> \o
      [k \in 1..6 |-> IF k % 2 = 1 THEN Mi((k - 1) \div 2) ELSE Ti((k - 2) \div 2)]

\* The result [err, aa, sym] of the turn whose look-ups are steps and whose
\* symmetry loop gave sym.
ImproperResult(steps, sym) ==
  LET aa == StrJoin([k \in 1..6 |-> steps[k].val], " ")
  IN  IF FirstErr(SubSeq(steps, 1, 6)) # ""
      THEN [err |-> FirstErr(steps), aa |-> "", sym |-> {}]
      ELSE IF FirstErr(steps) # ""
           THEN [err |-> FirstErr(steps), aa |-> aa, sym |-> {}]
           ELSE [err |-> sym.err, aa |-> aa, sym |-> sym.val]

\* The turn for the names anames, whose look-ups are steps.
ImproperTurn(anames, steps) ==
  ImproperResult(steps,
                 ImproperSymmetryLoop(anames,
                                      <<steps[7].val, steps[9].val, steps[11].val>>,
                                      <<steps[8].val, steps[10].val, steps[12].val>>,
                                      0, {}))

\* One turn of the loop over improper2cross: [err, aa, sym].  ImCrossTermID
\* is a name the file never binds.
ImproperAssemblyOf(improper_name, anames) ==
  IF Len(anames) < 4 THEN [err |-> "IndexError", aa |-> "", sym |-> {}]
  ELSE IF ~resolved THEN [err |-> "NameError", aa |-> "", sym |-> {}]
  ELSE ImproperTurn(anames,
                    ImproperLookups(anames,
                                    DictGet(improper2cross, improper_name).val,
                                    IsAutoInteraction(improper_name)))

\* The tables st = [err, aa, sym] after the turn for name gave r.
ImproperMerge(st, name, r) ==
  [err |-> r.err,
   aa  |-> IF r.aa # "" THEN DictPut(st.aa, name, r.aa) ELSE st.aa,
   sym |-> IF r.sym # {} THEN DictPut(st.sym, name, r.sym) ELSE st.sym]

\* for improper_name in improper2cross: ...  The state after the turns for
\* names, begun in the state st = [err, aa, sym] (the two tables written).
RECURSIVE ImproperAssemblyLoop(_, _)
ImproperAssemblyLoop(names, st) ==
  IF Len(names) = 0 \/ st.err # "" THEN st
  ELSE ImproperAssemblyLoop(
         Tail(names),
         ImproperMerge(st, names[1],
                       ImproperAssemblyOf(names[1], ExtractANames(names[1]))))

\* The assembly of the class2 impropers.
AssembleImpropers ==
  /\ pc = "improper"
  /\ \E st \in {ImproperAssemblyLoop(DictKeys(improper2cross),
                                     [err |-> "", aa |-> improper2class2_aa,
                                      sym |-> improper2sym])} :
       /\ err' = st.err
       /\ improper2class2_aa' = st.aa
       /\ improper2sym' = st.sym
  /\ pc' = IF err' # "" THEN "abort" ELSE "convert"
  /\ UNCHANGED <<resolved, a, fnvars, inputvars, loopvars, stderr, stdout, paramvars,
                 atom2ffid, priovars, angle2theta0, symvars, improper2cross,
                 sortvars>>

-----------------------------------------------------------------------------
(* Equivalence strings.                                                    *)

\* d.get(k, '')
DictGetOr(d, k) == IF DictHas(d, k) THEN DictGet(d, k).val ELSE ""

\* The tokens of each line of an equivalence section, as the two functions
\* split it.
EquivTokens(ls) ==
  [i \in 1..Len(ls) |->
     SplitQuotedString(Strip(ls[i]), DefaultQuotes, DefaultDelimiters,
                       DefaultEscape, "!>")]

\* The loop over the lines reads tokens[2] to tokens[last] of each.
EquivErr(rows, last) ==
  IF \E i \in 1..Len(rows) : Len(rows[i]) <= last THEN "IndexError" ELSE ""

\* The table atype -> tokens[col] the loop over the lines builds.
RECURSIVE EquivTable(_, _)
EquivTable(rows, col) ==
  IF Len(rows) = 0 THEN <<>>
  ELSE DictPut(EquivTable(SubSeq(rows, 1, Len(rows) - 1), col),
               rows[Len(rows)][3], rows[Len(rows)][col + 1])

\* The part of an atom's string both functions build.
EquivString(rows, atom) ==
  atom \o ",b" \o DictGetOr(EquivTable(rows, 4), atom)
       \o ",a" \o DictGetOr(EquivTable(rows, 5), atom)
       \o ",d" \o DictGetOr(EquivTable(rows, 6), atom)
       \o ",i" \o DictGetOr(EquivTable(rows, 7), atom)

\* Equivalences2ffids
Equivalences2ffids(lines_eq, atom_types) ==
  LET rows == EquivTokens(lines_eq)
  IN  IF EquivErr(rows, 7) # "" THEN Raise(EquivErr(rows, 7))
      ELSE Ret([i \in 1..Len(atom_types) |->
                  <<atom_types[i], EquivString(rows, atom_types[i])>>])

\* AutoEquivalences2ffids: its loop over the auto lines binds
\* atom2auto_e_pair, atom2auto_e_bondincr and atom2auto_e_bond to strings, and
\* a string has no method get; without auto lines the two tables read are
\* empty, and get returns ''.
AutoEquivalences2ffids(lines_eq, lines_auto_eq, atom_types) ==
  LET rows  == EquivTokens(lines_eq)
      arows == EquivTokens(lines_auto_eq)
  IN  IF EquivErr(rows, 7) # "" THEN Raise(EquivErr(rows, 7))
      ELSE IF EquivErr(arows, 11) # "" THEN Raise(EquivErr(arows, 11))
      ELSE IF Len(arows) > 0 /\ Len(atom_types) > 0 THEN Raise("AttributeError")
      ELSE Ret([i \in 1..Len(atom_types) |->
                  <<atom_types[i],
                    EquivString(rows, atom_types[i])
                      \o ",aq" \o "" \o ",ab" \o ""
                      \o ",aae" \o DictGetOr(EquivTable(arows, 6), atom_types[i])
                      \o ",aac" \o DictGetOr(EquivTable(arows, 7), atom_types[i])
                      \o ",ade" \o DictGetOr(EquivTable(arows, 8), atom_types[i])
                      \o ",adc" \o DictGetOr(EquivTable(arows, 9), atom_types[i])
                      \o ",aie" \o DictGetOr(EquivTable(arows, 10), atom_types[i])
                      \o ",aic" \o DictGetOr(EquivTable(arows, 11), atom_types[i])>>])

-----------------------------------------------------------------------------
(* Section reader: the statements of one turn of the reading loop.         *)
(*                                                                         *)
(* The body of a handler is the sequence of its statements: W is an        *)
(* assignment into a table, Local an assignment of a local, E a point      *)
(* where the handler raises when its argument is not "".  The statements   *)
(* executed are those before the first that raises.                        *)

W(t, k, v) == [table |-> t, key |-> k, val |-> v, err |-> ""]

Local(name, v) == [table |-> name, key |-> "", val |-> v, err |-> ""]

E(e) == [table |-> "", key |-> "", val |-> "", err |-> e]

RECURSIVE Executed(_)
Executed(steps) ==
  IF Len(steps) = 0 \/ steps[1].err # "" THEN <<>>
  ELSE <<steps[1]>> \o Executed(Tail(steps))

\* The table t, holding d, after the statements executed.
RECURSIVE WrittenAcc(_, _, _)
WrittenAcc(t, d, done) ==
  IF Len(done) = 0 THEN d
  ELSE WrittenAcc(t,
                  IF done[1].table = t THEN DictPut(d, done[1].key, done[1].val)
                  ELSE d,
                  Tail(done))

Written(t, d, steps) == WrittenAcc(t, d, Executed(steps))

\* The local name, holding old, after the statements executed.
RECURSIVE AssignedAcc(_, _, _)
AssignedAcc(name, old, done) ==
  IF Len(done) = 0 THEN old
  ELSE AssignedAcc(name, IF done[1].table = name THEN done[1].val ELSE old,
                   Tail(done))

Assigned(name, old, steps) == AssignedAcc(name, old, Executed(steps))

\* A read of a name the file never binds.
Unres == IF resolved THEN "" ELSE "NameError"

\* DeterminePriority(anames): the call with one argument.
DeterminePriority1(anames) ==
  IF ~resolved THEN Raise("TypeError") ELSE DeterminePriority(anames, FALSE)

\* "x, = f()" for a call that returns a pair.
Unpack1 == IF resolved THEN "" ELSE "ValueError"

\* s[i] for a string s.
StrIndex(s, i) ==
  IF i >= 0 /\ i < Len(s) THEN Ret(SubSeq(s, i + 1, i + 1))
  ELSE IF i < 0 /\ -i <= Len(s) THEN Ret(SubSeq(s, Len(s) + i + 1, Len(s) + i + 1))
  ELSE Raise("IndexError")

\* int(s) for a string of digits.
PyInt(s) ==
  IF Len(s) > 0 /\ IsDigitStr(s) THEN Ret(DigitsVal(s, 0)) ELSE Raise("ValueError")

\* The float 0.0 where the other values are strings.
Float0 == "<0.0>"

\* x + ' ' + y + ...: a float among the strings raises TypeError.
Concat(parts) ==
  IF \E i \in 1..Len(parts) : parts[i] = Float0 THEN Raise("TypeError")
  ELSE Ret(StrJoin(parts, " "))

\* aorig where a statement reads it: four names, once it is bound.
AorigVal == IF aorig.bound THEN aorig.val ELSE <<"", "", "", "">>

\* allowed_section_names: no comma separates '#nonbond(12-6)' from
\* '#quadratic_bond', and the two literals are one string.
allowed_section_names ==
  {"#define", "#atom_types", "#equivalence", "#auto_equivalence",
   "#nonbond(9-6)", "#nonbond(12-6)" \o "#quadratic_bond", "#quartic_bond",
   "#morse_bond", "#quadratic_angle", "#quartic_angle", "#bond-bond",
   "#bond-angle", "#torsion_1", "#torsion_3", "#middle_bond-torsion_3",
   "#end_bond-torsion_3", "#angle-torsion_3", "#angle-angle-torsion_1",
   "#bond-bond_1_3", "#out_of_plane", "#wilson_out_of_plane", "#angle-angle",
   "#out_of_plane-out_of_plane", "#torsion-torsion_1", "#bond_increments",
   "#hbond_definition"}

\* A header line.
SectionHeader(tokens) ==
  LET c == StrIndex(tokens[Len(tokens)], -5)
  IN  <<Local("section_name", tokens[1]),
        E(c.err),
        Local("section_is_auto", c.val = "_auto")>>

\* A line of '#equivalence' and of '#auto_equivalence'.
EquivalenceLine(line) ==
  <<Local("lines_equivalences", Append(lines_equivalences, line))>>

AutoEquivalenceLine(line) ==
  <<Local("lines_auto_equivalences", Append(lines_auto_equivalences, line))>>

\* The column of the '!Ver' line named name: the last token that matches,
\* or old.
VerColumn(vtokens, name, old) ==
  LET hits == {i \in 1..Len(vtokens) : Lower(vtokens[i]) = name}
  IN  IF hits = {} THEN old
      ELSE (CHOOSE i \in hits : \A j \in hits : j <= i) - 1

Max2(x, y) == IF x >= y THEN x ELSE y

\* A line of '#atom_types'.
AtomTypeLine(line) ==
  LET stripped == Strip(line)
      isver    == FindAt0(stripped, "!Ver")
      vtokens  == WsSplit(stripped)
      Col(name, old) == IF isver THEN VerColumn(vtokens, name, old) ELSE old
      ic       == [type    |-> Col("type", icol.type),
                   mass    |-> Col("mass", icol.mass),
                   elem    |-> Col("element", icol.elem),
                   nbond   |-> Col("connections", icol.nbond),
                   comment |-> Col("comment", icol.comment)]
      split    == NSplitQuotedString(stripped, ic.comment, DefaultQuotes,
                                     DefaultDelimiters, DefaultEscape, "!")
      tokens   == [i \in 1..Len(split) |-> RemoveOuterQuotes(split[i])]
      ic2      == IF ic.comment = -1
                  THEN [ic EXCEPT !.comment =
                          Max2(Max2(ic.type, ic.mass), Max2(ic.elem, ic.nbond)) + 1]
                  ELSE ic
      mass     == PyIndex(tokens, ic2.mass)
      massf    == PyFloat(mass.val)
      type     == PyIndex(tokens, ic2.type)
      elem     == PyIndex(tokens, ic2.elem)
      nbond    == PyIndex(tokens, ic2.nbond)
      nbondi   == PyInt(nbond.val)
  IN  IF Len(tokens) > 5
      THEN IF ic.type = -1 \/ ic.mass = -1
           THEN <<Local("icol", ic), E("Invalid #atom_types section")>>
           ELSE IF type_subset = {} \/ tokens[2] \in type_subset
                THEN <<Local("icol", ic2),
                       E(mass.err), E(massf.err), E(type.err),
                       W("atom2mass", type.val,
                         IF massf.err = "" THEN Max2(massf.val, 1000) ELSE 0),
                       E(elem.err),
                       W("atom2element", type.val, elem.val),
                       E(Unres), E(nbond.err), E(nbondi.err),
                       W("atom2numbonds", type.val, nbondi.val),
                       W("atom2descr", tokens[2], PyFrom(line, 51))>>
                ELSE <<Local("icol", ic2)>>
      ELSE <<Local("icol", ic), E("Invalid atom line")>>

\* A line of '#nonbond(12-6)'.  The parameters str(epsilon) + ' ' +
\* str(sigma), with epsilon = B*B/(4*A) and sigma = (B/A)^(1/6), are kept as
\* the pair <<A, B>> they are computed from.
Nonbond126Line(tokens) ==
  LET atom_name == tokens[3]
      A == PyFloat(tokens[4])
      B == PyFloat(tokens[5])
  IN  <<E(A.err), E(B.err),
        E(IF A.err = "" /\ A.val = 0 THEN "ZeroDivisionError" ELSE ""),
        E(Unres),
        W("pair2style", atom_name, "lj/cut/long"),
        W("pair2params", atom_name, <<A.val, B.val>>),
        Local("pair_mixing_style", Bound("geometric tail yes"))>>

\* A line of '#nonbond(9-6)'.
Nonbond96Line(tokens) ==
  LET atom_name == tokens[3]
      sigma     == tokens[4]
      epsilon   == tokens[5]
  IN  <<E(Unres),
        W("pair2style", atom_name, "class2"),
        W("pair2params", atom_name, epsilon \o " " \o sigma),
        Local("pair_mixing_style", Bound("sixthpower tail yes"))>>

\* A line of '#bond_increments'.
BondIncrementsLine(tokens) ==
  LET atom_names == ReverseIfEnds(MapEncodeAName(PySlice(tokens, 2, 4)))
      bond_name  == EncodeInteractionName(atom_names, section_is_auto)
      deltaIJ    == tokens[5]
      deltaJI    == tokens[6]
  IN  <<E(bond_name.err), E(Unres),
        W("bond_increments", bond_name.val, deltaIJ \o " " \o deltaJI)>>

\* The statements every handler of an interaction begins with: the key of
\* the interaction, then its priority.  sorted is the canonical name list.
NameAndPriority(table, sorted, orig) ==
  LET name     == EncodeInteractionName(sorted, section_is_auto)
      priority == DeterminePriority1(orig)
  IN  <<E(name.err), E(priority.err),
        W(table, name.val, <<section_is_auto, priority.val>>)>>

\* The key those statements compute.
NameOf(sorted) == EncodeInteractionName(sorted, section_is_auto).val

\* A line of '#quadratic-bond'.
QuadraticBondLine(tokens) ==
  LET atom_names == ReverseIfEnds(MapEncodeAName(PySlice(tokens, 2, 4)))
      bond_name  == NameOf(atom_names)
      k          == tokens[6]
      r0         == tokens[7]
  IN  NameAndPriority("bond2priority", atom_names, PySlice(tokens, 2, 4)) \o
      <<E(Unres),
        W("bond2r0", bond_name, tokens[5]),
        W("bond2style", bond_name, "harmonic"),
        W("bond2params", bond_name, k \o " " \o r0)>>

\* A line of '#quartic-bond'.
QuarticBondLine(tokens) ==
  LET atom_names == ReverseIfEnds(MapEncodeAName(PySlice(tokens, 2, 4)))
      bond_name  == NameOf(atom_names)
      r0         == tokens[5]
  IN  NameAndPriority("bond2priority", atom_names, PySlice(tokens, 2, 4)) \o
      <<E(Unres),
        W("bond2r0", bond_name, r0),
        W("bond2style", bond_name, "quartic"),
        W("bond2params", bond_name,
          r0 \o " " \o tokens[6] \o " " \o tokens[7] \o " " \o tokens[8])>>

\* A line of '#quadratic-angle'.
QuadraticAngleLine(tokens) ==
  LET atom_names == ReverseIfEnds(MapEncodeAName(PySlice(tokens, 2, 5)))
      angle_name == NameOf(atom_names)
      k          == tokens[7]
      theta0     == tokens[8]
  IN  NameAndPriority("angle2priority", atom_names, PySlice(tokens, 2, 5)) \o
      <<E(Unres),
        W("angle2theta0", angle_name, tokens[6]),
        W("angle2style", angle_name, "harmonic"),
        W("angle2params", angle_name, k \o " " \o theta0)>>

\* A line of '#quartic-angle'.
QuarticAngleLine(tokens) ==
  LET atom_names == ReverseIfEnds(MapEncodeAName(PySlice(tokens, 2, 5)))
      angle_name == NameOf(atom_names)
      theta0     == tokens[6]
  IN  NameAndPriority("angle2priority", atom_names, PySlice(tokens, 2, 5)) \o
      <<E(Unres),
        W("angle2theta0", angle_name, theta0),
        W("angle2style", angle_name, "class2"),
        W("angle2params", angle_name,
          theta0 \o " " \o tokens[7] \o " " \o tokens[8] \o " " \o tokens[9])>>

\* The two baseline look-ups of a cross term: the statements, and the pair
\* read (turned round when rev).
Baselines(table, n0, n1) ==
  <<E(n0.err), E(n1.err), E(Unres),
    E(DictGet(table, n0.val).err), E(DictGet(table, n1.val).err)>>

BaselinePair(table, n0, n1, rev) ==
  IF rev THEN <<DictGet(table, n1.val).val, DictGet(table, n0.val).val>>
  ELSE <<DictGet(table, n0.val).val, DictGet(table, n1.val).val>>

\* The names of the two bonds aorig[0:2] and aorig[2:4] of the list l.
EndBondNames(l) ==
  <<EncodeInteractionName(ReverseIfEnds(PySlice(l, 0, 2)), section_is_auto),
    EncodeInteractionName(ReverseIfEnds(PySlice(l, 2, 4)), section_is_auto)>>

\* order_reversed where a statement tests it.
OrderReversedErr == IF order_reversed.bound THEN "" ELSE "NameError"

OrderReversedVal == order_reversed.bound /\ order_reversed.val

\* A line of '#bond-bond': aorig and order_reversed are those a line of a
\* dihedral cross-term section left, if any.
BondBondLine(tokens) ==
  LET atom_names == ReverseIfEnds(MapEncodeAName(PySlice(tokens, 2, 5)))
      angle_name == NameOf(atom_names)
      Kbb        == tokens[6]
      bond_names == EndBondNames(AorigVal)
      r0         == BaselinePair(bond2r0, bond_names[1], bond_names[2],
                                 OrderReversedVal)
  IN  NameAndPriority("angle2priority", atom_names, PySlice(tokens, 2, 5)) \o
      <<E(IF aorig.bound THEN "" ELSE "NameError")>> \o
      Baselines(bond2r0, bond_names[1], bond_names[2]) \o
      <<E(OrderReversedErr),
        W("angle2style", angle_name, "class2"),
        W("angle2class2_bb", angle_name, Kbb \o " " \o r0[1] \o " " \o r0[2])>>

\* A line of '#bond-angle'.
BondAngleLine(tokens) ==
  LET atom_names == ReverseIfEnds(MapEncodeAName(PySlice(tokens, 2, 5)))
      angle_name == NameOf(atom_names)
      K1         == PyIndex(tokens, 6)
      K          == IF OrderReversedVal THEN <<K1.val, tokens[6]>>
                    ELSE <<tokens[6], K1.val>>
      bond_names == EndBondNames(AorigVal)
      r0         == BaselinePair(bond2r0, bond_names[1], bond_names[2],
                                 OrderReversedVal)
  IN  NameAndPriority("angle2priority", atom_names, PySlice(tokens, 2, 5)) \o
      <<E(K1.err), E(IF aorig.bound THEN "" ELSE "NameError")>> \o
      Baselines(bond2r0, bond_names[1], bond_names[2]) \o
      <<E(OrderReversedErr),
        W("angle2style", angle_name, "class2"),
        E(Unres),
        W("angle2params_ba", angle_name,
          K[1] \o " " \o K[1] \o " " \o r0[1] \o " " \o r0[2])>>

\* A line of '#torsion_1'.
Torsion1Line(tokens) ==
  LET atom_names    == ReverseIfEnds(MapEncodeAName(PySlice(tokens, 2, 6)))
      dihedral_name == NameOf(atom_names)
  IN  NameAndPriority("dihedral2priority", atom_names, PySlice(tokens, 2, 6)) \o
      <<W("dihedral2style", dihedral_name, "charmm"),
        E(Unres),
        W("dihedral2params", dihedral_name,
          tokens[7] \o " " \o tokens[8] \o " " \o tokens[9] \o " " \o "0.0")>>

\* tokens[i] when len(tokens) > n, else the default d.
TokenOr(tokens, n, i, d) == IF Len(tokens) > n THEN tokens[i + 1] ELSE d

\* A line of '#torsion_3'.
Torsion3Line(tokens) ==
  LET atom_names    == ReverseIfEnds(MapEncodeAName(PySlice(tokens, 2, 6)))
      dihedral_name == NameOf(atom_names)
      V1     == tokens[7]
      phi0_1 == tokens[8]
      V2     == TokenOr(tokens, 9, 8, "0.0")
      phi0_2 == TokenOr(tokens, 9, 9, "0.0")
      V3     == TokenOr(tokens, 11, 10, "0.0")
      phi0_3 == TokenOr(tokens, 11, 11, "0.0")
  IN  NameAndPriority("dihedral2priority", atom_names, PySlice(tokens, 2, 6)) \o
      <<W("dihedral2style", dihedral_name, "class2"),
        E(Unres),
        W("dihedral2params", dihedral_name,
          StrJoin(<<V1, phi0_1, V2, phi0_2, V3, phi0_3>>, " "))>>

\* A line of '#middle_bond-torsion_3' that also stores the first coefficient
\* as the baseline of the middle bond.
MiddleBondTorsion3LineStoring(tokens) ==
  LET atom_names    == ReverseIfEnds(MapEncodeAName(PySlice(tokens, 2, 6)))
      dihedral_name == NameOf(atom_names)
      F1 == tokens[7]
      F2 == TokenOr(tokens, 7, 7, "0.0")
      F3 == TokenOr(tokens, 8, 8, "0.0")
      bond_name == EncodeInteractionName(PySlice(atom_names, 1, 3), section_is_auto)
      r0 == DictGet(bond2r0, bond_name.val)
  IN  NameAndPriority("dihedral2priority", atom_names, PySlice(tokens, 2, 6)) \o
      <<E(bond_name.err), E(Unres), E(r0.err),
        W("bond2r0", bond_name.val, F1),
        W("dihedral2style", dihedral_name, "class2"),
        W("dihedral2params_mbt", dihedral_name,
          StrJoin(<<F1, F2, F3, r0.val>>, " "))>>

\* A line of '#middle_bond-torsion_3'.
MiddleBondTorsion3Line(tokens) ==
  LET atom_names    == ReverseIfEnds(MapEncodeAName(PySlice(tokens, 2, 6)))
      dihedral_name == NameOf(atom_names)
      F1 == tokens[7]
      F2 == TokenOr(tokens, 7, 7, "0.0")
      F3 == TokenOr(tokens, 8, 8, "0.0")
      bond_name == EncodeInteractionName(PySlice(atom_names, 1, 3), section_is_auto)
      r0 == DictGet(bond2r0, bond_name.val)
  IN  NameAndPriority("dihedral2priority", atom_names, PySlice(tokens, 2, 6)) \o
      <<E(bond_name.err), E(Unres), E(r0.err),
        W("dihedral2style", dihedral_name, "class2"),
        W("dihedral2params_mbt", dihedral_name,
          StrJoin(<<F1, F2, F3, r0.val>>, " "))>>

\* The statements the handlers of the dihedral cross terms begin with:
\* aorig, atom_names by way of the unbound name ReverseIfEnd, order_reversed,
\* then the key and the priority.
DihedralCrossHead(tokens) ==
  LET new_aorig  == MapEncodeAName(PySlice(tokens, 2, 6))
      atom_names == ReverseIfEnds(new_aorig)
  IN  <<Local("aorig", Bound(new_aorig)),
        E(Unres),
        Local("order_reversed",
              Bound(StrLess(new_aorig[Len(new_aorig)], new_aorig[1])))>> \o
      NameAndPriority("dihedral2priority", atom_names, PySlice(tokens, 2, 6))

\* F[0] and F[1]: three coefficients each, 0.0 where the line gives none, and
\* F[1] those of F[0] where the line gives none.
Coefficients(tokens) ==
  LET F0 == <<tokens[7], TokenOr(tokens, 7, 7, Float0), TokenOr(tokens, 8, 8, Float0)>>
  IN  <<F0,
        <<TokenOr(tokens, 9, 9, F0[1]), TokenOr(tokens, 10, 10, F0[2]),
          TokenOr(tokens, 11, 11, F0[3])>>>>

\* A line of '#end_bond-torsion_3'.
EndBondTorsion3Line(tokens) ==
  LET new_aorig     == MapEncodeAName(PySlice(tokens, 2, 6))
      rev           == StrLess(new_aorig[Len(new_aorig)], new_aorig[1])
      dihedral_name == NameOf(ReverseIfEnds(new_aorig))
      F0            == Coefficients(tokens)
      F             == IF rev THEN Reverse(F0) ELSE F0
      bond_names    == EndBondNames(new_aorig)
      r0            == BaselinePair(bond2r0, bond_names[1], bond_names[2], rev)
      params        == Concat(F[1] \o F[2] \o r0)
  IN  DihedralCrossHead(tokens) \o
      Baselines(bond2r0, bond_names[1], bond_names[2]) \o
      <<W("dihedral2style", dihedral_name, "class2"),
        E(params.err),
        W("dihedral2class2_ebt", dihedral_name, params.val),
        W("dihedral2sym_ebt", dihedral_name,
          F[1][1] = F[2][1] /\ F[1][2] = F[2][2] /\ F[1][3] = F[2][3]
          /\ r0[1] = r0[2])>>

\* The names of the two angles of the list l: both are aorig[0:3].
AngleNames(l) ==
  <<EncodeInteractionName(ReverseIfEnds(PySlice(l, 0, 3)), section_is_auto),
    EncodeInteractionName(ReverseIfEnds(PySlice(l, 0, 3)), section_is_auto)>>

\* A line of '#angle-torsion_3'.
AngleTorsion3Line(tokens) ==
  LET new_aorig     == MapEncodeAName(PySlice(tokens, 2, 6))
      rev           == StrLess(new_aorig[Len(new_aorig)], new_aorig[1])
      dihedral_name == NameOf(ReverseIfEnds(new_aorig))
      F0            == Coefficients(tokens)
      F             == IF rev THEN Reverse(F0) ELSE F0
      angle_names   == AngleNames(new_aorig)
      theta0        == BaselinePair(angle2theta0, angle_names[1], angle_names[2], rev)
      params        == Concat(F[1] \o F[2] \o theta0)
  IN  DihedralCrossHead(tokens) \o
      Baselines(angle2theta0, angle_names[1], angle_names[2]) \o
      <<W("dihedral2style", dihedral_name, "class2"),
        E(params.err),
        W("dihedral2class2_at", dihedral_name, params.val),
        E(Unres),
        W("dihedral2sym_at", dihedral_name,
          F[1][1] = F[2][1] /\ F[1][2] = F[2][2] /\ F[1][3] = F[2][3]
          /\ theta0[1] = theta0[2])>>

\* A line of '#angle-angle-torsion_1'.
AngleAngleTorsion1Line(tokens) ==
  LET new_aorig     == MapEncodeAName(PySlice(tokens, 2, 6))
      rev           == StrLess(new_aorig[Len(new_aorig)], new_aorig[1])
      dihedral_name == NameOf(ReverseIfEnds(new_aorig))
      Kaa           == tokens[7]
      angle_names   == AngleNames(new_aorig)
      theta0        == BaselinePair(angle2theta0, angle_names[1], angle_names[2], rev)
  IN  DihedralCrossHead(tokens) \o
      Baselines(angle2theta0, angle_names[1], angle_names[2]) \o
      <<W("dihedral2style", dihedral_name, "class2"),
        W("dihedral2class2_aat", dihedral_name,
          Kaa \o " " \o theta0[1] \o " " \o theta0[2]),
        W("dihedral2sym_aat", dihedral_name, theta0[1] = theta0[2])>>

\* A line of '#bond-bond_1_3': the bonds are atom_names[0:2] and
\* atom_names[2:4], as they stand.
BondBond13Line(tokens) ==
  LET new_aorig     == MapEncodeAName(PySlice(tokens, 2, 6))
      rev           == StrLess(new_aorig[Len(new_aorig)], new_aorig[1])
      atom_names    == ReverseIfEnds(new_aorig)
      dihedral_name == NameOf(atom_names)
      Kbb           == tokens[7]
      bond_names    == <<EncodeInteractionName(PySlice(atom_names, 0, 2), section_is_auto),
                         EncodeInteractionName(PySlice(atom_names, 2, 4), section_is_auto)>>
      r0            == BaselinePair(bond2r0, bond_names[1], bond_names[2], rev)
  IN  DihedralCrossHead(tokens) \o
      Baselines(bond2r0, bond_names[1], bond_names[2]) \o
      <<W("dihedral2style", dihedral_name, "class2"),
        W("dihedral2class2_bb13", dihedral_name,
          Kbb \o " " \o r0[1] \o " " \o r0[2]),
        W("dihedral2sym_bb13", dihedral_name, r0[1] = r0[2])>>

\* The name list an improper sort returned, or four empty names when it
\* raised.
SortedNames(r) == IF r.err = "" THEN r.val[1] ELSE <<"", "", "", "">>

\* A line of '#out_of_plane': Kchi is read for K.
OutOfPlaneLine(tokens) ==
  LET sorted        == OOPImproperNameSort(PySlice(tokens, 2, 6))
      atom_names    == SortedNames(sorted)
      improper_name == NameOf(atom_names)
      K             == tokens[7]
      n             == tokens[8]
      chi0          == tokens[9]
  IN  <<E(sorted.err), E(Unpack1)>> \o
      NameAndPriority("improper2priority", atom_names, PySlice(tokens, 2, 6)) \o
      <<W("improper2style", improper_name, "cvff"),
        E(Unres),
        W("improper2params", improper_name, K \o " " \o n \o " " \o chi0),
        Local("improper_symmetry_subgraph", Bound("cenJswapIL"))>>

\* A line of '#wilson_out_of_plane'.
WilsonOutOfPlaneLine(tokens) ==
  LET sorted        == Class2ImproperNameSort(PySlice(tokens, 2, 6))
      atom_names    == SortedNames(sorted)
      improper_name == NameOf(atom_names)
      K             == tokens[7]
      chi0          == tokens[8]
  IN  <<E(sorted.err), E(Unpack1)>> \o
      NameAndPriority("improper2priority", atom_names, PySlice(tokens, 2, 6)) \o
      <<W("improper2style", improper_name, "class2"),
        E(Unres),
        W("improper2params", improper_name, K \o " " \o chi0),
        Local("improper_symmetry_subgraph", Bound("cenJsortIKL"))>>

\* A line of '#angle-angle': improper2cross[improper_name] is a dict, made
\* empty when the key is new.
AngleAngleLine(tokens) ==
  LET sorted        == Class2ImproperNameSort(PySlice(tokens, 2, 6))
      atom_names    == SortedNames(sorted)
      improper_name == NameOf(atom_names)
      K             == tokens[7]
      cross         == IF DictHas(improper2cross, improper_name)
                       THEN DictGet(improper2cross, improper_name).val ELSE <<>>
  IN  <<E(sorted.err), E(Unpack1)>> \o
      NameAndPriority("improper2priority", atom_names, PySlice(tokens, 2, 6)) \o
      <<E(Unres),
        W("improper2cross", improper_name,
          DictPut(cross, ImCrossTermIDs(atom_names), K)),
        W("improper2style", improper_name, "class2")>>

\* The body of the reading loop for the line and its tokens: the chain of
\* tests, and the statements of the first branch whose test holds.
LineStatements(line, tokens) ==
  LET n == Len(tokens)
  IN  IF n > 0 /\ tokens[1] \in allowed_section_names THEN SectionHeader(tokens)
      ELSE IF n = 8 /\ section_name = "#equivalence" THEN EquivalenceLine(line)
      ELSE IF n = 12 /\ section_name = "#auto_equivalence"
           THEN AutoEquivalenceLine(line)
      ELSE IF n > 1 /\ section_name = "#atom_types" THEN AtomTypeLine(line)
      ELSE IF n > 4 /\ section_name = "#nonbond(12-6)" THEN Nonbond126Line(tokens)
      ELSE IF n > 4 /\ section_name = "#nonbond(9-6)" THEN Nonbond96Line(tokens)
      ELSE IF n > 6 /\ section_name = "#bond_increments"
           THEN BondIncrementsLine(tokens)
      ELSE IF n > 6 /\ section_name = "#quadratic-bond" THEN QuadraticBondLine(tokens)
      ELSE IF n > 7 /\ section_name = "#quartic-bond" THEN QuarticBondLine(tokens)
      ELSE IF n > 7 /\ section_name = "#quadratic-angle"
           THEN QuadraticAngleLine(tokens)
      ELSE IF n > 8 /\ section_name = "#quartic-angle" THEN QuarticAngleLine(tokens)
      ELSE IF n > 5 /\ section_name = "#bond-bond" THEN BondBondLine(tokens)
      ELSE IF n > 5 /\ section_name = "#bond-angle" THEN BondAngleLine(tokens)
      ELSE IF n > 8 /\ section_name = "#torsion_1" THEN Torsion1Line(tokens)
      ELSE IF n > 7 /\ section_name = "#torsion_3" THEN Torsion3Line(tokens)
      ELSE IF n > 6 /\ section_name = "#middle_bond-torsion_3"
           THEN MiddleBondTorsion3Line(tokens)
      ELSE IF n > 6 /\ section_name = "#end_bond-torsion_3"
           THEN EndBondTorsion3Line(tokens)
      ELSE IF n > 6 /\ section_name = "#angle-torsion_3"
           THEN AngleTorsion3Line(tokens)
      ELSE IF n > 6 /\ section_name = "#angle-angle-torsion_1"
           THEN AngleAngleTorsion1Line(tokens)
      ELSE IF n > 6 /\ section_name = "#bond-bond_1_3" THEN BondBond13Line(tokens)
      ELSE IF n > 8 /\ section_name = "#out_of_plane" THEN OutOfPlaneLine(tokens)
      ELSE IF n > 7 /\ section_name = "#wilson_out_of_plane"
           THEN WilsonOutOfPlaneLine(tokens)
      ELSE IF n > 6 /\ section_name = "#angle-angle" THEN AngleAngleLine(tokens)
      ELSE IF n > 0 /\ section_name = "#out_of_plane-out_of_plane"
           THEN <<Local("display_OOP_OOP_warning", TRUE)>>
      ELSE IF n > 0 /\ section_name = "#torsion-torsion_1"
           THEN <<Local("display_torsion_torsion_1_warning", TRUE)>>
      ELSE <<>>

-----------------------------------------------------------------------------
(* Priority ordering of the records (the sorts of the output phase).       *)

\* p >= q on Python tuples (is_auto, n), with False < True.
PrioGreaterOrEqual(p, q) == (p[1] /\ ~q[1]) \/ (p[1] = q[1] /\ p[2] >= q[2])

\* p > q on the same tuples.
PrioGreater(p, q) == (p[1] /\ ~q[1]) \/ (p[1] = q[1] /\ p[2] > q[2])

\* One item put in its place in a sequence already ordered from high to low:
\* after every item whose key is not smaller (the sort is stable).
RECURSIVE InsertHighToLow(_, _)
InsertHighToLow(sorted, item) ==
  IF Len(sorted) = 0 THEN <<item>>
  ELSE IF PrioGreater(item[2], sorted[1][2])
       THEN <<item>> \o sorted
       ELSE <<sorted[1]>> \o InsertHighToLow(Tail(sorted), item)

\* sorted(d.items(), key=itemgetter(1), reverse=True)
RECURSIVE SortedHighToLow(_)
SortedHighToLow(items) ==
  IF Len(items) = 0 THEN <<>>
  ELSE InsertHighToLow(SortedHighToLow(SubSeq(items, 1, Len(items) - 1)),
                       items[Len(items)])

-----------------------------------------------------------------------------
(* Inputs drawn by the specifications.                                     *)

\* Atom names as they stand in a .frc file: plain, with a '*' inside, and
\* wildcard patterns with a priority integer.
ANamePool == {"c4", "h1", "c*", "*2", "c4*2", "h1*2", "h1*3"}

\* Lists of 2, 3 and 4 atom names: a bond, an angle, a dihedral or improper.
ANameLists ==
  UNION {[1..k -> ANamePool] : k \in 2..4}

\* Bindings of the free name "a".
ABindings == {AUnbound, ANoList, AList(<<"c4*2">>), AList(<<"*2">>)}

\* Keys of a priority table.
KeyPool == {"c4,h1", "X,c4", "h1,h1"}

Priorities == BOOLEAN \X (0..MaxPriority)

\* Sequences of distinct elements of S.
RECURSIVE Arrangements(_)
Arrangements(S) ==
  {<<>>} \cup UNION {{<<x>> \o t : t \in Arrangements(S \ {x})} : x \in S}

\* The priority tables: keys in the order of their discovery.
PriorityTables ==
  UNION {{[i \in 1..Len(ks) |-> <<ks[i], ps[i]>>] : ps \in [1..Len(ks) -> Priorities]}
         : ks \in Arrangements(KeyPool)}

-----------------------------------------------------------------------------
(* State.                                                                  *)

FnIdle == fn_name = "" /\ fn_args = <<>> /\ fn_ret = Ret(<<>>)

\* No input.
InputIdle == include_auto_equivalences = FALSE /\ type_subset = {} /\ lines = <<>>

\* The locals of the reading loop as main creates them.
LoopInit ==
  /\ iline = 0
  /\ section_name = ""
  /\ section_is_auto = FALSE
  /\ icol = [type |-> -1, mass |-> -1, elem |-> -1, nbond |-> -1, comment |-> -1]
  /\ aorig = Unbound
  /\ order_reversed = Unbound
  /\ lines_equivalences = <<>>
  /\ lines_auto_equivalences = <<>>
  /\ display_OOP_OOP_warning = FALSE
  /\ display_torsion_torsion_1_warning = FALSE

\* The parameter tables as main creates them.
ParamInit ==
  /\ atom2mass = <<>> /\ atom2element = <<>> /\ atom2numbonds = <<>>
  /\ atom2descr = <<>>
  /\ pair2style = <<>> /\ pair2params = <<>> /\ pair_mixing_style = Unbound
  /\ bond_increments = <<>>
  /\ bond2r0 = <<>> /\ bond2style = <<>> /\ bond2params = <<>>
  /\ angle2style = <<>> /\ angle2params = <<>> /\ angle2class2_bb = <<>>
  /\ angle2params_ba = <<>>
  /\ dihedral2style = <<>> /\ dihedral2params = <<>>
  /\ dihedral2params_mbt = <<>> /\ dihedral2class2_ebt = <<>>
  /\ dihedral2class2_at = <<>> /\ dihedral2class2_aat = <<>>
  /\ dihedral2class2_bb13 = <<>>
  /\ improper2style = <<>> /\ improper2params = <<>>
  /\ improper_symmetry_subgraph = Unbound

PrioInit ==
  /\ bond2priority = <<>> /\ angle2priority = <<>>
  /\ dihedral2priority = <<>> /\ improper2priority = <<>>

SymInit ==
  /\ dihedral2sym_ebt = <<>> /\ dihedral2sym_at = <<>>
  /\ dihedral2sym_aat = <<>> /\ dihedral2sym_bb13 = <<>>

ImproperInit ==
  /\ improper2cross = <<>> /\ improper2class2_aa = <<>> /\ improper2sym = <<>>

\* main before it reads anything.
MainIdle ==
  /\ InputIdle /\ LoopInit /\ stderr = <<>> /\ stdout = <<>> /\ ParamInit /\ atom2ffid = <<>>
  /\ angle2theta0 = <<>> /\ SymInit /\ ImproperInit

SortIdle ==
  /\ bond_names_priority_high_to_low = <<>>
  /\ angle_names_priority_high_to_low = <<>>
  /\ dihedral_names_priority_high_to_low = <<>>
  /\ improper_names_priority_high_to_low = <<>>

-----------------------------------------------------------------------------
(* main: a run of the converter on an input file.                          *)

\* The first statements of main read sys, Set and DefaultDict, which nothing
\* imports or defines.
Start ==
  /\ pc = "start"
  /\ err' = Unres
  /\ pc' = IF err' # "" THEN "abort" ELSE "read"
  /\ UNCHANGED <<resolved, a, fnvars, mainvars, priovars, sortvars>>

\* The state after the statements steps of one line.
Apply(steps) ==
  /\ section_name' = Assigned("section_name", section_name, steps)
  /\ section_is_auto' = Assigned("section_is_auto", section_is_auto, steps)
  /\ icol' = Assigned("icol", icol, steps)
  /\ aorig' = Assigned("aorig", aorig, steps)
  /\ order_reversed' = Assigned("order_reversed", order_reversed, steps)
  /\ lines_equivalences' = Assigned("lines_equivalences", lines_equivalences, steps)
  /\ lines_auto_equivalences' =
       Assigned("lines_auto_equivalences", lines_auto_equivalences, steps)
  /\ display_OOP_OOP_warning' =
       Assigned("display_OOP_OOP_warning", display_OOP_OOP_warning, steps)
  /\ display_torsion_torsion_1_warning' =
       Assigned("display_torsion_torsion_1_warning",
                display_torsion_torsion_1_warning, steps)
  /\ pair_mixing_style' = Assigned("pair_mixing_style", pair_mixing_style, steps)
  /\ improper_symmetry_subgraph' =
       Assigned("improper_symmetry_subgraph", improper_symmetry_subgraph, steps)
  /\ atom2mass' = Written("atom2mass", atom2mass, steps)
  /\ atom2element' = Written("atom2element", atom2element, steps)
  /\ atom2numbonds' = Written("atom2numbonds", atom2numbonds, steps)
  /\ atom2descr' = Written("atom2descr", atom2descr, steps)
  /\ pair2style' = Written("pair2style", pair2style, steps)
  /\ pair2params' = Written("pair2params", pair2params, steps)
  /\ bond_increments' = Written("bond_increments", bond_increments, steps)
  /\ bond2r0' = Written("bond2r0", bond2r0, steps)
  /\ bond2style' = Written("bond2style", bond2style, steps)
  /\ bond2params' = Written("bond2params", bond2params, steps)
  /\ angle2style' = Written("angle2style", angle2style, steps)
  /\ angle2params' = Written("angle2params", angle2params, steps)
  /\ angle2class2_bb' = Written("angle2class2_bb", angle2class2_bb, steps)
  /\ angle2params_ba' = Written("angle2params_ba", angle2params_ba, steps)
  /\ dihedral2style' = Written("dihedral2style", dihedral2style, steps)
  /\ dihedral2params' = Written("dihedral2params", dihedral2params, steps)
  /\ dihedral2params_mbt' = Written("dihedral2params_mbt", dihedral2params_mbt, steps)
  /\ dihedral2class2_ebt' = Written("dihedral2class2_ebt", dihedral2class2_ebt, steps)
  /\ dihedral2class2_at' = Written("dihedral2class2_at", dihedral2class2_at, steps)
  /\ dihedral2class2_aat' = Written("dihedral2class2_aat", dihedral2class2_aat, steps)
  /\ dihedral2class2_bb13' =
       Written("dihedral2class2_bb13", dihedral2class2_bb13, steps)
  /\ improper2style' = Written("improper2style", improper2style, steps)
  /\ improper2params' = Written("improper2params", improper2params, steps)
  /\ bond2priority' = Written("bond2priority", bond2priority, steps)
  /\ angle2priority' = Written("angle2priority", angle2priority, steps)
  /\ dihedral2priority' = Written("dihedral2priority", dihedral2priority, steps)
  /\ improper2priority' = Written("improper2priority", improper2priority, steps)
  /\ angle2theta0' = Written("angle2theta0", angle2theta0, steps)
  /\ dihedral2sym_ebt' = Written("dihedral2sym_ebt", dihedral2sym_ebt, steps)
  /\ dihedral2sym_at' = Written("dihedral2sym_at", dihedral2sym_at, steps)
  /\ dihedral2sym_aat' = Written("dihedral2sym_aat", dihedral2sym_aat, steps)
  /\ dihedral2sym_bb13' = Written("dihedral2sym_bb13", dihedral2sym_bb13, steps)
  /\ improper2cross' = Written("improper2cross", improper2cross, steps)
  /\ err' = FirstErr(steps)

\* One turn of the reading loop: the line is split, then handled.
ProcessLine ==
  /\ pc = "read"
  /\ iline < Len(lines)
  /\ LET line   == lines[iline + 1]
         tokens == SplitQuotedString(Strip(line), DefaultQuotes,
                                     DefaultDelimiters, DefaultEscape, "!>")
     IN  Apply(LineStatements(line, tokens))
  /\ iline' = iline + 1
  /\ pc' = IF err' # "" THEN "abort" ELSE "read"
  /\ UNCHANGED <<resolved, a, fnvars, inputvars, stderr, stdout, atom2ffid,
                 improper2class2_aa, improper2sym, sortvars>>

\* The two warnings written once the loop ends.
WriteWarnings ==
  /\ pc = "read"
  /\ iline = Len(lines)
  /\ stderr' = stderr
       \o (IF display_OOP_OOP_warning
           THEN <<"ALL \"out-of-plane_out-of_plane\" INTERACTIONS ARE IGNORED.">>
           ELSE <<>>)
       \o (IF display_torsion_torsion_1_warning
           THEN <<"ALL \"torsion_torsion_1\" INTERACTIONS ARE IGNORED.">>
           ELSE <<>>)
  /\ pc' = "ffid"
  /\ UNCHANGED <<resolved, a, err, fnvars, inputvars, loopvars, stdout, paramvars,
                 atom2ffid, priovars, angle2theta0, symvars, improper2cross,
                 improper2class2_aa, improper2sym, sortvars>>

\* atom2ffid: the function without auto equivalences is called when they are
\* asked for, and the other one when they are not.  atom_types, which main
\* never binds, is read as the atom types of atom2mass.
ComputeFfids ==
  LET atom_types == DictKeys(atom2mass)
      r == IF ~resolved THEN Raise("NameError")
           ELSE IF include_auto_equivalences
           THEN Equivalences2ffids(lines_equivalences, atom_types)
           ELSE AutoEquivalences2ffids(lines_equivalences,
                                       lines_auto_equivalences, atom_types)
  IN  /\ pc = "ffid"
      /\ err' = r.err
      /\ atom2ffid' = IF r.err = "" THEN r.val ELSE atom2ffid
      /\ pc' = IF err' # "" THEN "abort" ELSE "dihedral"
      /\ UNCHANGED <<resolved, a, fnvars, inputvars, loopvars, stderr, stdout, paramvars,
                     priovars, angle2theta0, symvars, improper2cross,
                     improper2class2_aa, improper2sym, sortvars>>

\* The first lines of the output.
OutputHeader ==
  <<"# This file was generated automatically using:",
    "# msifrc2lt.py",
    "#",
    "# WARNING: The following 1-2, 1-3, and 1-4 weighting parameters were ASSUMED:">>

\* The output stage with the statement "CONTINUEHERE" passed over: the header
\* is written, the charge of the first atom type is missing from atom2charge,
\* which nothing fills, and with no atom type the name atom2vdw_e, which
\* nothing binds, is read.
ContinueHerePassed ==
  /\ pc = "convert"
  /\ stdout' = stdout \o OutputHeader
  /\ err' = IF atom2mass # <<>> THEN "KeyError" ELSE "NameError"
  /\ pc' = "abort"
  /\ UNCHANGED <<resolved, a, fnvars, inputvars, loopvars, stderr, paramvars,
                 atom2ffid, angle2theta0, symvars, improper2cross,
                 improper2class2_aa, improper2sym, priovars, sortvars>>

\* The statement "CONTINUEHERE" before the first write of the output: a name
\* nothing binds.  The writes to stdout that follow it are not run.
ContinueHere ==
  /\ pc = "convert"
  /\ err' = "NameError"
  /\ pc' = "abort"
  /\ UNCHANGED <<resolved, a, fnvars, mainvars, priovars, sortvars>>

\* The longest input drawn line by line.
MaxLines == 3

\* Lines of an input file: headers with and without a label, data lines, a
\* comment.
LinePool ==
  {"#quartic_bond", "#quadratic_bond", "#quadratic_angle",
   "#middle_bond-torsion_3", "#torsion-torsion_1",
   "#out_of_plane-out_of_plane\tcff91",
   "1.0 1 c4 c4 1.5 300.0 -600.0 700.0",
   "1.0 1 h1 c4 c4 h1 -1.0 0.5 0.1",
   "!comment"}

\* A quadratic bond and a quadratic angle after an atom-type and an
\* equivalence section: with labelled headers and the columns of the .frc
\* format, and with bare headers and the columns the handlers read.
QuadraticFile ==
  <<"#atom_types\tcff91",
    "!Ver Ref Type Mass Element Connections Comment",
    " 1.0 1 c4 12.011 C 4 generic",
    "#equivalence\tcff91",
    " 1.0 1 c4 c4 c4 c4 c4 c4",
    "#quadratic_bond\tcff91",
    " 1.0 1 c4 h1 1.101 345.0",
    "#quadratic_angle\tcff91",
    " 1.0 1 h1 c4 h1 107.6 39.6">>

QuadraticFileBare ==
  <<"#atom_types",
    "!Ver Ref Type Mass Element Connections Comment",
    " 1.0 1 c4 12.011 C 4 generic",
    "#equivalence",
    " 1.0 1 c4 c4 c4 c4 c4 c4",
    "#quadratic_bond",
    " 1.0 1 c4 h1 1.101 345.0 1.101",
    "#quadratic_angle",
    " 1.0 1 h1 c4 h1 107.6 39.6 107.6">>

\* A middle-bond-torsion line after the section that records its bond.
CrossTermFile ==
  <<"#quartic_bond",
    "1.0 1 c4 c4 1.5 300.0 -600.0 700.0",
    "#middle_bond-torsion_3",
    "1.0 1 h1 c4 c4 h1 -1.0 0.5 0.1">>

\* An atom-type line with no '!Ver' line before it.
AtomTypesFile ==
  <<"#atom_types",
    " 1.0 1 c4 12.011 C 4 generic">>

InputFiles ==
  UNION {[1..n -> LinePool] : n \in 0..MaxLines}
    \cup {QuadraticFile, QuadraticFileBare, CrossTermFile, AtomTypesFile}

Init ==
  /\ resolved \in BOOLEAN
  /\ a \in ABindings
  /\ pc = "start"
  /\ err = ""
  /\ FnIdle
  /\ include_auto_equivalences \in BOOLEAN
  /\ type_subset = {}
  /\ lines \in InputFiles
  /\ LoopInit /\ stderr = <<>> /\ stdout = <<>> /\ ParamInit /\ atom2ffid = <<>>
  /\ angle2theta0 = <<>> /\ SymInit /\ ImproperInit
  /\ PrioInit /\ SortIdle

Next ==
  \/ Start
  \/ ProcessLine
  \/ WriteWarnings
  \/ ComputeFfids
  \/ CheckDihedralSymmetry
  \/ AssembleImpropers
  \/ ContinueHere

Spec == Init /\ [][Next]_vars

-----------------------------------------------------------------------------
(* The dihedral symmetry check, from drawn symmetry tables.                *)

\* Keys of dihedrals: with equal and with different end names.
DihedralPool == {"c4,h1,h1,c4", "c4,c4,h1,h1"}

\* The symmetry tables a sub-table section can leave: some of the keys, each
\* with its flag.
SymTables ==
  UNION {{[i \in 1..Len(ks) |-> <<ks[i], fs[i]>>] : fs \in [1..Len(ks) -> BOOLEAN]}
         : ks \in Arrangements(DihedralPool)}

InitDihedral ==
  /\ resolved \in BOOLEAN
  /\ a \in {AUnbound}
  /\ pc = "dihedral"
  /\ err = ""
  /\ FnIdle
  /\ InputIdle /\ LoopInit /\ stderr = <<>> /\ stdout = <<>> /\ ParamInit /\ atom2ffid = <<>>
  /\ angle2theta0 = <<>>
  /\ dihedral2sym_ebt \in SymTables
  /\ dihedral2sym_at \in SymTables
  /\ dihedral2sym_aat \in SymTables
  /\ dihedral2sym_bb13 \in SymTables
  /\ ImproperInit /\ PrioInit /\ SortIdle

NextDihedral == CheckDihedralSymmetry

SpecDihedral == InitDihedral /\ [][NextDihedral]_vars

-----------------------------------------------------------------------------
(* The assembly of the class2 impropers, from drawn tables.                *)

\* Keys of class2 impropers (hub second): three different leaves, and two
\* leaves of one name.
ImproperPool == {"h1,c4,n3,o2", "h1,c4,h1,o2"}

\* The coefficients of one improper as the '#angle-angle' handler stores
\* them, all under the key ImCrossTermID returns, and as one coefficient per
\* cross-term name.
CrossTables(name) ==
  LET n == StrSplit(name, ",")
      Id(i, j, k, l) == n[i] \o "," \o n[j] \o "," \o n[k] \o "," \o n[l]
  IN  {<<<<None, "0.5">>>>, <<<<None, "0.7">>>>,
       <<<<Id(1, 2, 3, 4), "0.5">>, <<Id(3, 2, 1, 4), "0.5">>,
         <<Id(1, 2, 4, 3), "0.7">>>>}

ImproperCrossTables ==
  UNION {{[i \in 1..Len(ks) |-> <<ks[i], cs[i]>>] :
            cs \in {f \in [1..Len(ks) -> UNION {CrossTables(k) : k \in ImproperPool}] :
                      \A i \in 1..Len(ks) : f[i] \in CrossTables(ks[i])}}
         : ks \in Arrangements(ImproperPool)}

\* The keys of the angles of the two impropers whose middle atom is the hub,
\* and of those the assembly loop asks for with a leaf in the middle.
HubAngleKeys == <<"h1,c4,n3", "h1,c4,o2", "n3,c4,o2", "h1,c4,h1">>

LeafAngleKeys == <<"n3,h1,o2", "h1,n3,n3", "h1,h1,o2", "h1,h1,h1">>

TableOver(keys, F(_)) == [i \in 1..Len(keys) |-> <<keys[i], F(keys[i])>>]

Theta109(k) == "109.5"

ThetaMixed(k) == IF k = "h1,c4,o2" THEN "120.0" ELSE "109.5"

\* Tables of equilibrium angles: every angle with one value, one angle
\* different, only the angles about the hub, none.
AngleTables ==
  {TableOver(HubAngleKeys \o LeafAngleKeys, Theta109),
   TableOver(HubAngleKeys \o LeafAngleKeys, ThetaMixed),
   TableOver(HubAngleKeys, Theta109),
   <<>>}

InitImproper ==
  /\ resolved \in BOOLEAN
  /\ a \in {AUnbound}
  /\ pc = "improper"
  /\ err = ""
  /\ FnIdle
  /\ InputIdle /\ LoopInit /\ stderr = <<>> /\ stdout = <<>> /\ ParamInit /\ atom2ffid = <<>>
  /\ angle2theta0 \in AngleTables
  /\ SymInit
  /\ improper2cross \in ImproperCrossTables
  /\ improper2class2_aa = <<>> /\ improper2sym = <<>>
  /\ PrioInit /\ SortIdle

NextImproper == AssembleImpropers

SpecImproper == InitImproper /\ [][NextImproper]_vars

-----------------------------------------------------------------------------
(* The functions of the file, each applied once to a drawn argument.       *)

InitFn ==
  /\ resolved \in BOOLEAN
  /\ a \in ABindings
  /\ pc = "fn"
  /\ err = ""
  /\ fn_name = ""
  /\ fn_args \in ANameLists
  /\ fn_ret = Ret(<<>>)
  /\ MainIdle /\ PrioInit /\ SortIdle

Call(name, ret) ==
  /\ pc = "fn"
  /\ fn_name = ""
  /\ fn_name' = name
  /\ fn_ret' = ret
  /\ pc' = "returned"
  /\ UNCHANGED <<resolved, a, err, fn_args, mainvars, priovars, sortvars>>

CallReverseIfEnds == Call("ReverseIfEnds", Ret(ReverseIfEnds(fn_args)))

CallOOPImproperNameSort ==
  /\ Len(fn_args) = 4
  /\ Call("OOPImproperNameSort", OOPImproperNameSort(fn_args))

CallClass2ImproperNameSort ==
  /\ Len(fn_args) = 4
  /\ Call("Class2ImproperNameSort", Class2ImproperNameSort(fn_args))

CallDeterminePriority ==
  \E is_auto \in BOOLEAN :
    Call("DeterminePriority", DeterminePriority(fn_args, is_auto))

NextFn ==
  \/ CallReverseIfEnds
  \/ CallOOPImproperNameSort
  \/ CallClass2ImproperNameSort
  \/ CallDeterminePriority

SpecFn == InitFn /\ [][NextFn]_vars

-----------------------------------------------------------------------------
(* The lexer, applied once to a drawn string.                              *)

\* The longest string drawn, and the largest nmax.
MaxLexLen == 5

MaxNmax == 2

\* A letter, a delimiter, the two quotes and a comment character.
LexAlphabet == {"a", " ", "'", "\"", "!"}

LexStrings ==
  {StrJoin(f, "") : f \in UNION {[1..n -> LexAlphabet] : n \in 0..MaxLexLen}}

\* nmax = -1 is the value of icol_comment before a '!Ver' line.
InitLex ==
  /\ resolved = TRUE
  /\ a = AUnbound
  /\ pc = "fn"
  /\ err = ""
  /\ fn_name = ""
  /\ fn_args \in [string : LexStrings, nmax : -1..MaxNmax]
  /\ fn_ret = Ret(<<>>)
  /\ MainIdle /\ PrioInit /\ SortIdle

CallNSplitQuotedString ==
  Call("NSplitQuotedString",
       Ret(NSplitQuotedString(fn_args.string, fn_args.nmax, DefaultQuotes,
                              DefaultDelimiters, DefaultEscape, "!")))

CallSplitQuotedString ==
  Call("SplitQuotedString",
       Ret(SplitQuotedString(fn_args.string, DefaultQuotes, DefaultDelimiters,
                             DefaultEscape, "!")))

NextLex == CallNSplitQuotedString \/ CallSplitQuotedString

SpecLex == InitLex /\ [][NextLex]_vars

-----------------------------------------------------------------------------
(* The key of an interaction, built from drawn lists of encoded names.     *)

\* The most names in a list.
MaxKeyNames == 3

\* Encoded atom names: plain, beginning with a digit, beginning with "auto".
KeyANames == {"c4", "h1", "0c4", "auto0c4"}

KeyNameLists == UNION {[1..k -> KeyANames] : k \in 1..MaxKeyNames}

InitKey ==
  /\ resolved = TRUE
  /\ a \in ABindings
  /\ pc = "fn"
  /\ err = ""
  /\ fn_name = ""
  /\ fn_args \in [anames : KeyNameLists, is_auto : BOOLEAN]
  /\ fn_ret = Ret(<<>>)
  /\ MainIdle /\ PrioInit /\ SortIdle

CallEncodeInteractionName ==
  Call("EncodeInteractionName",
       EncodeInteractionName(fn_args.anames, fn_args.is_auto))

NextKey == CallEncodeInteractionName

SpecKey == InitKey /\ [][NextKey]_vars

-----------------------------------------------------------------------------
(* The sorts of the output phase, from drawn priority tables.              *)

\* "for name, in items": a pair unpacked into one target raises ValueError
\* as the file stands.
UnpackItems(items) ==
  IF Len(items) > 0 /\ ~resolved THEN "ValueError" ELSE ""

SortStep(table, at, next) ==
  /\ pc = at
  /\ err' = UnpackItems(SortedHighToLow(table))
  /\ pc' = IF err' # "" THEN "abort" ELSE next
  /\ UNCHANGED <<resolved, a, fnvars, mainvars, priovars>>

SortBonds ==
  /\ SortStep(bond2priority, "out_bond", "out_angle")
  /\ bond_names_priority_high_to_low' = SortedHighToLow(bond2priority)
  /\ UNCHANGED <<angle_names_priority_high_to_low,
                 dihedral_names_priority_high_to_low,
                 improper_names_priority_high_to_low>>

SortAngles ==
  /\ SortStep(angle2priority, "out_angle", "out_dihedral")
  /\ angle_names_priority_high_to_low' = SortedHighToLow(angle2priority)
  /\ UNCHANGED <<bond_names_priority_high_to_low,
                 dihedral_names_priority_high_to_low,
                 improper_names_priority_high_to_low>>

SortDihedrals ==
  /\ SortStep(dihedral2priority, "out_dihedral", "out_improper")
  /\ dihedral_names_priority_high_to_low' = SortedHighToLow(dihedral2priority)
  /\ UNCHANGED <<bond_names_priority_high_to_low,
                 angle_names_priority_high_to_low,
                 improper_names_priority_high_to_low>>

SortImpropers ==
  /\ SortStep(improper2priority, "out_improper", "done")
  /\ improper_names_priority_high_to_low' = SortedHighToLow(improper2priority)
  /\ UNCHANGED <<bond_names_priority_high_to_low,
                 angle_names_priority_high_to_low,
                 dihedral_names_priority_high_to_low>>

InitSort ==
  /\ resolved \in BOOLEAN
  /\ a \in {AUnbound}
  /\ pc = "out_bond"
  /\ err = ""
  /\ FnIdle /\ MainIdle
  /\ \E t \in PriorityTables, which \in 1..4 :
       /\ bond2priority = IF which = 1 THEN t ELSE <<>>
       /\ angle2priority = IF which = 2 THEN t ELSE <<>>
       /\ dihedral2priority = IF which = 3 THEN t ELSE <<>>
       /\ improper2priority = IF which = 4 THEN t ELSE <<>>
  /\ SortIdle

NextSort == SortBonds \/ SortAngles \/ SortDihedrals \/ SortImpropers

SpecSort == InitSort /\ [][NextSort]_vars

-----------------------------------------------------------------------------
(* The body of the reading loop, from drawn token lists.                   *)
(*                                                                         *)
(* SplitQuotedString as written returns a line as one token, so that in a  *)
(* run of main no handler of a data line is entered.  Here the body of the *)
(* loop (lines 900-1368) is applied to lines already split into words, as  *)
(* the documentation string of the lexer describes its result; the line is *)
(* the words joined by one blank.  The input may end after any line.       *)

\* The longest input drawn token list by token list.
MaxTokenLines == 3

\* Headers with a label (recognized ones, one of them with a label that ends
\* in "_auto", and one that is no section of the list), data lines of 5, 9
\* and 2 words, and the token list of a comment line.
TokenLines ==
  {<<"#nonbond(9-6)", "cff91">>,
   <<"#torsion_1", "cff91_auto">>,
   <<"#atom_types", "cff91">>,
   <<"#reference", "1">>,
   <<"1.0", "1", "c4", "3.5", "0.05">>,
   <<"1.0", "1", "h1", "c4", "c4", "h1", "1.0", "1", "0.0">>,
   <<"1.0", "1">>,
   <<"">>}

InitReader ==
  /\ resolved \in BOOLEAN
  /\ a \in ABindings
  /\ pc = "read"
  /\ err = ""
  /\ FnIdle
  /\ include_auto_equivalences \in BOOLEAN
  /\ type_subset = {}
  /\ lines = <<>>
  /\ LoopInit /\ stderr = <<>> /\ stdout = <<>> /\ ParamInit /\ atom2ffid = <<>>
  /\ angle2theta0 = <<>> /\ SymInit /\ ImproperInit
  /\ PrioInit /\ SortIdle

\* One turn of the reading loop on a line whose words are tokens.
ReadTokens ==
  /\ pc = "read"
  /\ iline = Len(lines)
  /\ iline < MaxTokenLines
  /\ \E tokens \in TokenLines :
       /\ Apply(LineStatements(StrJoin(tokens, " "), tokens))
       /\ lines' = Append(lines, StrJoin(tokens, " "))
  /\ iline' = iline + 1
  /\ pc' = IF err' # "" THEN "abort" ELSE "read"
  /\ UNCHANGED <<resolved, a, fnvars, include_auto_equivalences, type_subset, stderr, stdout,
                 atom2ffid, improper2class2_aa, improper2sym, sortvars>>

NextReader == ReadTokens \/ WriteWarnings

SpecReader == InitReader /\ [][NextReader]_vars

-----------------------------------------------------------------------------
(* The equivalence strings of the atoms, from drawn atom types and lines.  *)

\* Lines of '#equivalence' (8 words) and of '#auto_equivalence' (12 words).
EquivalenceLines ==
  {<<>>,
   <<" 1.0 1 c4 c4 c4 c4 c4 c4">>,
   <<" 1.0 1 h1 h1 h1 h1 h1 h1">>,
   <<" 1.0 1 c4 c4 c4 c4 c4 c4", " 1.0 1 h1 h1 h1 h1 h1 h1">>}

AutoEquivalenceLines ==
  {<<>>,
   <<" 1.0 1 c4 c4 c4 c4 c4 c4 c4 c4 c4 c4">>,
   <<" 1.0 1 h1 h1 h1 h1 h1 h1 h1 h1 h1 h1">>}

\* atom2mass as the atom-type section is meant to leave it.
AtomTables ==
  {<<>>, <<<<"c4", 12011>>>>, <<<<"c4", 12011>>, <<"h1", 1008>>>>}

InitFfid ==
  /\ resolved \in BOOLEAN
  /\ a = AUnbound
  /\ pc = "ffid"
  /\ err = ""
  /\ FnIdle
  /\ include_auto_equivalences \in BOOLEAN
  /\ type_subset = {}
  /\ lines = <<>>
  /\ iline = 0
  /\ section_name = ""
  /\ section_is_auto = FALSE
  /\ icol = [type |-> -1, mass |-> -1, elem |-> -1, nbond |-> -1, comment |-> -1]
  /\ aorig = Unbound
  /\ order_reversed = Unbound
  /\ lines_equivalences \in EquivalenceLines
  /\ lines_auto_equivalences \in AutoEquivalenceLines
  /\ display_OOP_OOP_warning = FALSE
  /\ display_torsion_torsion_1_warning = FALSE
  /\ stderr = <<>> /\ stdout = <<>>
  /\ atom2mass \in AtomTables
  /\ atom2element = <<>> /\ atom2numbonds = <<>> /\ atom2descr = <<>>
  /\ pair2style = <<>> /\ pair2params = <<>> /\ pair_mixing_style = Unbound
  /\ bond_increments = <<>>
  /\ bond2r0 = <<>> /\ bond2style = <<>> /\ bond2params = <<>>
  /\ angle2style = <<>> /\ angle2params = <<>> /\ angle2class2_bb = <<>>
  /\ angle2params_ba = <<>>
  /\ dihedral2style = <<>> /\ dihedral2params = <<>>
  /\ dihedral2params_mbt = <<>> /\ dihedral2class2_ebt = <<>>
  /\ dihedral2class2_at = <<>> /\ dihedral2class2_aat = <<>>
  /\ dihedral2class2_bb13 = <<>>
  /\ improper2style = <<>> /\ improper2params = <<>>
  /\ improper_symmetry_subgraph = Unbound
  /\ atom2ffid = <<>>
  /\ angle2theta0 = <<>> /\ SymInit /\ ImproperInit
  /\ PrioInit /\ SortIdle

NextFfid == ComputeFfids

SpecFfid == InitFfid /\ [][NextFfid]_vars

-----------------------------------------------------------------------------
(* The atom-type handler, from drawn column declarations and allow-lists.  *)
(*                                                                         *)
(* A '!Ver' line is a comment for the lexer of the loop and, inside the    *)
(* handler, for the lexer of line 929, which returns one empty token for   *)
(* it: the handler raises on the line that declares the columns.  Here the *)
(* columns are drawn as a '!Ver' line names them.                          *)

\* The most atom-type lines read.
MaxAtomLines == 2

\* "!Ver Ref Type Mass Element Connections Comment" and
\* "!Ver Ref Mass Type Element Connections Comment".
ColumnOrders ==
  {[type |-> 2, mass |-> 3, elem |-> 4, nbond |-> 5, comment |-> 6],
   [type |-> 3, mass |-> 2, elem |-> 4, nbond |-> 5, comment |-> 6]}

\* The sets the argument -atoms leaves: none, a type name, a reference
\* number.
TypeSubsets == {{}, {"c4"}, {"1"}}

\* Atom-type lines in the first and in the second column order.
AtomLines ==
  {" 1.0 1 c4 12.011 C 4",
   " 1.0 1 h1 1.008 H 1",
   " 1.0 1 12.011 c4 C 4",
   " 1.0 2 c4 12.011 C 4"}

InitAtomTypes ==
  /\ resolved \in BOOLEAN
  /\ a = AUnbound
  /\ pc = "read"
  /\ err = ""
  /\ FnIdle
  /\ include_auto_equivalences = FALSE
  /\ type_subset \in TypeSubsets
  /\ lines = <<>>
  /\ iline = 0
  /\ section_name = "#atom_types"
  /\ section_is_auto = FALSE
  /\ icol \in ColumnOrders
  /\ aorig = Unbound
  /\ order_reversed = Unbound
  /\ lines_equivalences = <<>>
  /\ lines_auto_equivalences = <<>>
  /\ display_OOP_OOP_warning = FALSE
  /\ display_torsion_torsion_1_warning = FALSE
  /\ stderr = <<>> /\ stdout = <<>> /\ ParamInit /\ atom2ffid = <<>>
  /\ angle2theta0 = <<>> /\ SymInit /\ ImproperInit
  /\ PrioInit /\ SortIdle

\* One turn of the reading loop on an atom-type line of more than one token.
ReadAtomLine ==
  /\ pc = "read"
  /\ iline = Len(lines)
  /\ iline < MaxAtomLines
  /\ \E line \in AtomLines :
       /\ Apply(AtomTypeLine(line))
       /\ lines' = Append(lines, line)
  /\ iline' = iline + 1
  /\ pc' = IF err' # "" THEN "abort" ELSE "read"
  /\ UNCHANGED <<resolved, a, fnvars, include_auto_equivalences, type_subset,
                 stderr, stdout, atom2ffid, improper2class2_aa, improper2sym, sortvars>>

NextAtomTypes == ReadAtomLine

SpecAtomTypes == InitAtomTypes /\ [][NextAtomTypes]_vars

-----------------------------------------------------------------------------
(* The primitive sections and the cross terms that read their baselines.   *)
(*                                                                         *)
(* The handlers of the primitive sections test section names with a hyphen *)
(* ('#quadratic-bond'), which allowed_section_names does not hold, so that *)
(* no header enters them and bond2r0 and angle2theta0 stay empty in every  *)
(* run.  Here the loop starts inside a section of the name a primitive     *)
(* handler tests, on lines already split into words; the headers of the    *)
(* cross-term sections are read as in a run, and so is what follows the    *)
(* loop.                                                                   *)

\* The most lines read.
MaxCrossLines == 3

\* The section names the handlers of lines 986-1041 test.
PrimitiveSectionNames ==
  {"#quadratic-bond", "#quartic-bond", "#quadratic-angle", "#quartic-angle"}

\* Headers of cross-term sections, two bonds, an angle, and cross-term lines
\* on four atoms with one, with two and with six coefficients.
CrossTokenLines ==
  {<<"#middle_bond-torsion_3">>, <<"#bond-bond_1_3">>,
   <<"#angle-angle-torsion_1">>, <<"#angle-torsion_3">>,
   <<"#end_bond-torsion_3">>, <<"#bond-bond">>,
   <<"1.0", "1", "c4", "h1", "1.1", "300.0", "1.2", "700.0">>,
   <<"1.0", "1", "c4", "c4", "1.5", "300.0", "1.6", "700.0">>,
   <<"1.0", "1", "c4", "c4", "c4", "110.0", "50.0", "111.0", "0.0">>,
   <<"1.0", "1", "c4", "h1", "c4", "h1", "0.5">>,
   <<"1.0", "1", "c4", "h1", "h1", "c4", "0.5", "0.6">>,
   <<"1.0", "1", "c4", "c4", "c4", "h1", "0.5">>,
   <<"1.0", "1", "c4", "c4", "c4", "h1", "0.1", "0.2", "0.3", "0.4", "0.5", "0.6">>}

InitCrossTerms ==
  /\ resolved \in BOOLEAN
  /\ a \in {AUnbound, ANoList}
  /\ pc = "read"
  /\ err = ""
  /\ FnIdle
  /\ include_auto_equivalences = FALSE
  /\ type_subset = {}
  /\ lines = <<>>
  /\ iline = 0
  /\ section_name \in PrimitiveSectionNames
  /\ section_is_auto = FALSE
  /\ icol = [type |-> -1, mass |-> -1, elem |-> -1, nbond |-> -1, comment |-> -1]
  /\ aorig = Unbound
  /\ order_reversed = Unbound
  /\ lines_equivalences = <<>>
  /\ lines_auto_equivalences = <<>>
  /\ display_OOP_OOP_warning = FALSE
  /\ display_torsion_torsion_1_warning = FALSE
  /\ stderr = <<>> /\ stdout = <<>> /\ ParamInit /\ atom2ffid = <<>>
  /\ angle2theta0 = <<>> /\ SymInit /\ ImproperInit
  /\ PrioInit /\ SortIdle

\* One turn of the reading loop on a line whose words are tokens.
ReadCrossTokens ==
  /\ pc = "read"
  /\ iline = Len(lines)
  /\ iline < MaxCrossLines
  /\ \E tokens \in CrossTokenLines :
       /\ Apply(LineStatements(StrJoin(tokens, " "), tokens))
       /\ lines' = Append(lines, StrJoin(tokens, " "))
  /\ iline' = iline + 1
  /\ pc' = IF err' # "" THEN "abort" ELSE "read"
  /\ UNCHANGED <<resolved, a, fnvars, include_auto_equivalences, type_subset,
                 stderr, stdout, atom2ffid, improper2class2_aa, improper2sym,
                 sortvars>>

NextCrossTerms ==
  \/ ReadCrossTokens
  \/ WriteWarnings
  \/ ComputeFfids
  \/ CheckDihedralSymmetry
  \/ AssembleImpropers
  \/ ContinueHere

SpecCrossTerms == InitCrossTerms /\ [][NextCrossTerms]_vars

-----------------------------------------------------------------------------
(* Claims.                                                                 *)

\* Every auto-generalized item of a sorted sequence comes after every
\* explicit item.
AutoLast(items) ==
  \A i, j \in 1..Len(items) : (items[i][2][1] /\ ~items[j][2][1]) => j < i

C2_ReverseSymmetric ==
  fn_name = "ReverseIfEnds" => fn_ret.val = ReverseIfEnds(Reverse(fn_args))

\* C3: each canonicalizer, applied to the list it returned, returns that
\* list again, and the two improper sorts the identity permutation with it.
C3_Idempotent ==
  /\ fn_name = "ReverseIfEnds" => ReverseIfEnds(fn_ret.val) = fn_ret.val
  /\ fn_name = "OOPImproperNameSort" =>
       /\ fn_ret.err = ""
       /\ OOPImproperNameSort(fn_ret.val[1]) = Ret(<<fn_ret.val[1], <<0, 1, 2, 3>>>>)
  /\ fn_name = "Class2ImproperNameSort" =>
       /\ fn_ret.err = ""
       /\ Class2ImproperNameSort(fn_ret.val[1]) = Ret(<<fn_ret.val[1], <<0, 1, 2, 3>>>>)

\* The integers n of the '*n' patterns (a '*' and then digits to the end of
\* the name) that the names of a list carry.
PatternInts(anames) ==
  {DigitsVal(SubSeq(anames[k], i + 1, Len(anames[k])), 0) :
     <<k, i>> \in {<<k, i>> \in (1..Len(anames)) \X (1..5) :
                     /\ i <= Len(anames[k])
                     /\ SubSeq(anames[k], i, i) = "*"
                     /\ Len(anames[k]) > i
                     /\ IsDigitStr(SubSeq(anames[k], i + 1, Len(anames[k])))}}

\* C4: DeterminePriority returns n when every '*n' pattern of the list
\* carries the same n, and 0 when no name carries the pattern.
C4_PriorityResolved ==
  (fn_name = "DeterminePriority" /\ Cardinality(PatternInts(fn_args)) <= 1) =>
     /\ fn_ret.err = ""
     /\ \A n \in PatternInts(fn_args) : fn_ret.val = n
     /\ PatternInts(fn_args) = {} => fn_ret.val = 0

\* C5: DeterminePriority fails with the 'Inconsistent priority integers'
\* error when the names of the list carry patterns with two different
\* integers.
C5_InconsistentPriorityFails ==
  (fn_name = "DeterminePriority" /\ Cardinality(PatternInts(fn_args)) > 1) =>
     fn_ret.err = "Inconsistent priority integers"

\* A middle-bond-torsion line with no section before it that records a bond.
CrossTermFileUnrecorded ==
  <<"#middle_bond-torsion_3",
    "1.0 1 h1 c4 c4 h1 -1.0 0.5 0.1">>

\* The reading loop has passed the last line of the input without aborting.
ReadingEnded == pc \in {"read", "ffid"} /\ iline = Len(lines)

\* C6: a '#middle_bond-torsion_3' line whose middle bond no earlier bond
\* section recorded aborts the run with a look-up error, and the same line
\* after a section that records the bond is accepted and leaves its
\* cross-term record.
C6_CrossTermNeedsBond ==
  resolved =>
    /\ (lines = CrossTermFileUnrecorded /\ pc # "start" /\ iline = Len(lines))
         => (pc = "abort" /\ err = "KeyError")
    /\ (lines = CrossTermFile /\ ReadingEnded)
         => (bond2r0 # <<>> /\ dihedral2params_mbt # <<>>)

\* The coefficients of an improper stored under the one key ImCrossTermIDs
\* gives: the same value for every ordering of the leaves.
OneCoefficient(cross) == Len(cross) = 1 /\ cross[1][1] = None

\* Every equilibrium angle the assembly asks for is recorded.
AllAngles == DictKeys(angle2theta0) = HubAngleKeys \o LeafAngleKeys

\* The assembly of the impropers has run.
Assembled == pc \in {"convert", "abort"} /\ improper2cross # <<>>

DistinctLeaves(name) ==
  LET n == ExtractANames(name)
  IN  n[1] # n[3] /\ n[1] # n[4] /\ n[3] # n[4]

ReportsAsymmetric(name) ==
  \E t \in {dihedral2sym_ebt, dihedral2sym_at, dihedral2sym_aat, dihedral2sym_bb13} :
    DictHas(t, name) /\ ~DictGet(t, name).val

OneRecord(d, v) == Len(d) = 1 /\ d[1][2] = v

\* The table d holds one record, a vector of n parameters.
OneVector(d, n) == Len(d) = 1 /\ Len(StrSplit(d[1][2], " ")) = n

\* C10: once an input with one line under '#quadratic_bond' and one under
\* '#quadratic_angle', after an atom-type and an equivalence section, has
\* been read, there is one bond record and one angle record, each of style
\* harmonic with two parameters, and no warning flag is set.
C10_QuadraticRecords ==
  (resolved /\ lines \in {QuadraticFile, QuadraticFileBare} /\ ReadingEnded) =>
    /\ OneRecord(bond2style, "harmonic") /\ OneVector(bond2params, 2)
    /\ OneRecord(angle2style, "harmonic") /\ OneVector(angle2params, 2)
    /\ ~display_OOP_OOP_warning /\ ~display_torsion_torsion_1_warning

\* The words of the line read last, and the line before it.
LastWords == WsSplit(lines[iline])

\* s ends with "_auto".
EndsWithAuto(s) == Len(s) >= 5 /\ SubSeq(s, Len(s) - 4, Len(s)) = "_auto"

\* The line read last is a header of the list of sections.
HeaderRead ==
  /\ pc = "read" /\ iline > 0 /\ iline <= Len(lines)
  /\ LastWords # <<>>
  /\ LastWords[1] \in allowed_section_names

\* C11: once a line whose first token is a recognized header is read, the
\* current section is that header, and the lines that follow are marked
\* auto-generalized exactly when the header ends in "_auto".
C11_HeaderSetsAuto ==
  (resolved /\ HeaderRead) =>
    /\ section_name = LastWords[1]
    /\ section_is_auto = EndsWithAuto(LastWords[Len(LastWords)])

\* Line k of the input is a header ('#' first) that is, or is not, a section
\* of the list.
IsHeader(k) == WsSplit(lines[k]) # <<>> /\ SubSeq(WsSplit(lines[k])[1], 1, 1) = "#"

IsKnownHeader(k) == IsHeader(k) /\ WsSplit(lines[k])[1] \in allowed_section_names

\* C12: while the lines read since a header that is no recognized section
\* hold no recognized header, the reader is in no section (section_name is
\* empty), so that no line is routed to a section handler.
C12_UnknownHeaderClosesSection ==
  (/\ resolved /\ pc = "read" /\ iline <= Len(lines)
   /\ \E k \in 1..iline :
        /\ IsHeader(k) /\ ~IsKnownHeader(k)
        /\ \A j \in (k + 1)..iline : ~IsKnownHeader(j))
    => section_name = ""

\* A header of the section name has been read, and a data line after it.
SectionEntered(name) ==
  \E k \in 1..(iline - 1) :
    /\ k < Len(lines)
    /\ WsSplit(lines[k]) # <<>> /\ WsSplit(lines[k])[1] = name
    /\ WsSplit(lines[k + 1]) # <<>> /\ ~IsHeader(k + 1)

\* The warning messages on stderr that name the interaction.
Messages(interaction) ==
  {i \in 1..Len(stderr) : stderr[i] = "ALL \"" \o interaction \o "\" INTERACTIONS ARE IGNORED."}

\* C13: a line of the section '#out_of_plane-out_of_plane' or
\* '#torsion-torsion_1' sets the warning flag of the section, reading goes on
\* without error, and once every line is read each flag that is set has
\* produced one warning message, and each flag that is not set none.
C13_WarningFlags ==
  resolved =>
    /\ (pc # "start" /\ SectionEntered("#out_of_plane-out_of_plane"))
         => (display_OOP_OOP_warning /\ pc # "abort")
    /\ (pc # "start" /\ SectionEntered("#torsion-torsion_1"))
         => (display_torsion_torsion_1_warning /\ pc # "abort")
    /\ pc \in {"ffid", "dihedral", "improper", "convert"} =>
         /\ Cardinality(Messages("out-of-plane_out-of_plane")) =
              (IF display_OOP_OOP_warning THEN 1 ELSE 0)
         /\ Cardinality(Messages("torsion_torsion_1")) =
              (IF display_torsion_torsion_1_warning THEN 1 ELSE 0)

\* A data line of two words: fewer than any section expects.
ShortLine == "1.0 1"

C15_UndeclaredColumnsAbort ==
  resolved =>
    /\ (lines = AtomTypesFile /\ pc # "start" /\ iline = Len(lines))
         => (pc = "abort" /\ err # "")
    /\ atom2mass # <<>> =>
         (icol.type # -1 /\ icol.mass # -1 /\ icol.elem # -1 /\ icol.nbond # -1)

\* The string holds no quote, escape or comment character of the lexer.
Plain(s) == \A i \in 1..Len(s) : ~InStr(SubSeq(s, i, i), "'\"\\!")

\* The words of a plain string: its maximal substrings free of delimiters.
Words(s) == WsSplit(s)

\* C16: SplitQuotedString (nmax = 0) returns, for a string with no quote,
\* escape or comment character, its words in order: k words give k tokens,
\* none of which holds a delimiter.
C16_SplitsIntoWords ==
  (fn_name = "SplitQuotedString" /\ Plain(fn_args.string)) =>
     fn_ret.val = Words(fn_args.string)

\* s without its leading delimiters.
RECURSIVE SkipDelimiters(_)
SkipDelimiters(s) ==
  IF Len(s) > 0 /\ InStr(SubSeq(s, 1, 1), DefaultDelimiters)
  THEN SkipDelimiters(SubSeq(s, 2, Len(s)))
  ELSE s

\* s without its first word.
RECURSIVE SkipWord(_)
SkipWord(s) ==
  IF Len(s) > 0 /\ ~InStr(SubSeq(s, 1, 1), DefaultDelimiters)
  THEN SkipWord(SubSeq(s, 2, Len(s)))
  ELSE s

\* The rest of a plain string after its first k words: from the first
\* character of word k + 1 to the end.
RECURSIVE RestAfter(_, _)
RestAfter(s, k) ==
  IF k = 0 THEN SkipDelimiters(s)
  ELSE RestAfter(SkipWord(SkipDelimiters(s)), k - 1)

\* C17: NSplitQuotedString with nmax > 0 returns at most nmax tokens, and for
\* a string of more than nmax words (with no quote, escape or comment
\* character) the first nmax - 1 words followed by the rest of the string
\* from word nmax on, unchanged.
C17_AtMostNmaxTokens ==
  (fn_name = "NSplitQuotedString" /\ fn_args.nmax > 0) =>
     /\ Len(fn_ret.val) <= fn_args.nmax
     /\ (Plain(fn_args.string) /\ Len(Words(fn_args.string)) > fn_args.nmax) =>
          /\ Len(fn_ret.val) = fn_args.nmax
          /\ \A i \in 1..(fn_args.nmax - 1) : fn_ret.val[i] = Words(fn_args.string)[i]
          /\ fn_ret.val[fn_args.nmax] = RestAfter(fn_args.string, fn_args.nmax - 1)

\* The position of the first character c of s after position j, or 0.
NextOf(s, j, c) ==
  LET hits == {k \in (j + 1)..Len(s) : SubSeq(s, k, k) = c}
  IN  IF hits = {} THEN 0 ELSE CHOOSE k \in hits : \A m \in hits : k <= m

\* The quoted substrings of s from position i on, as pairs <<j, k>>: an
\* opening quote at j outside every quotation and before every comment
\* character, and the next quote of the same kind at k.
RECURSIVE QuotedSubstrings(_, _)
QuotedSubstrings(s, i) ==
  IF i > Len(s) \/ SubSeq(s, i, i) = "!" THEN {}
  ELSE IF InStr(SubSeq(s, i, i), DefaultQuotes)
       THEN IF NextOf(s, i, SubSeq(s, i, i)) = 0 THEN {}
            ELSE {<<i, NextOf(s, i, SubSeq(s, i, i))>>}
                   \cup QuotedSubstrings(s, NextOf(s, i, SubSeq(s, i, i)) + 1)
       ELSE QuotedSubstrings(s, i + 1)

\* sub is a substring of s.
Contains(s, sub) ==
  \E p \in 1..(Len(s) - Len(sub) + 1) : SubSeq(s, p, p + Len(sub) - 1) = sub

\* C18: every quoted substring of the string, from its opening quote to the
\* matching closing quote, lies whole inside one token, whatever delimiters,
\* comment characters and quotes of the other kind it holds.
C18_QuotedStaysWhole ==
  fn_name \in {"NSplitQuotedString", "SplitQuotedString"} =>
    \A q \in QuotedSubstrings(fn_args.string, 1) :
      \E t \in 1..Len(fn_ret.val) :
        Contains(fn_ret.val[t], SubSeq(fn_args.string, q[1], q[2]))

\* A string split in two tokens, a word and a quoted substring with a
\* delimiter in it.
C18_Witness ==
  /\ fn_name = "NSplitQuotedString"
  /\ Len(fn_ret.val) = 2
  /\ fn_ret.val[1] = "a"
  /\ \E q \in QuotedSubstrings(fn_args.string, 1) :
       /\ Contains(SubSeq(fn_args.string, q[1] + 1, q[2] - 1), " ")
       /\ Contains(fn_ret.val[2], SubSeq(fn_args.string, q[1], q[2]))

\* The tags of the categories in an equivalence string.
BaseCategories == {",b", ",a", ",d", ",i"}

AutoCategories == {",aq", ",ab", ",aae", ",aac", ",ade", ",adc", ",aie", ",aic"}

C20_BuildersNeverFail ==
  (resolved /\ pc # "ffid") =>
    /\ err = ""
    /\ DictKeys(atom2ffid) = DictKeys(atom2mass)

\* The type name of atom-type line k, in the column the '!Ver' line declared.
TypeOfLine(k) == WsSplit(lines[k])[icol.type + 1]

\* The atom types some per-atom table records.
RecordedTypes ==
  {atom2mass[i][1] : i \in 1..Len(atom2mass)}
    \cup {atom2element[i][1] : i \in 1..Len(atom2element)}
    \cup {atom2numbonds[i][1] : i \in 1..Len(atom2numbonds)}
    \cup {atom2descr[i][1] : i \in 1..Len(atom2descr)}

Position(table, key) == CHOOSE k \in 1..Len(table) : table[k][1] = key

\* Among items of the same auto-ness: higher numbers first, equal numbers in
\* the order of the table.
PriorityThenDiscovery(items, table) ==
  \A i, j \in 1..Len(items) :
     (i < j /\ items[i][2][1] = items[j][2][1]) =>
        \/ items[i][2][2] > items[j][2][2]
        \/ /\ items[i][2][2] = items[j][2][2]
           /\ Position(table, items[i][1]) < Position(table, items[j][1])

\* C23: in each sorted sequence, among records of the same auto-ness a
\* record of higher numeric priority comes before a record of lower numeric
\* priority, and records of equal priority keep their order of discovery.
C23_PriorityThenDiscovery ==
  /\ pc \in {"out_angle", "out_dihedral", "out_improper", "done"}
       => PriorityThenDiscovery(bond_names_priority_high_to_low, bond2priority)
  /\ pc \in {"out_dihedral", "out_improper", "done"}
       => PriorityThenDiscovery(angle_names_priority_high_to_low, angle2priority)
  /\ pc \in {"out_improper", "done"}
       => PriorityThenDiscovery(dihedral_names_priority_high_to_low,
                                dihedral2priority)
  /\ pc = "done"
       => PriorityThenDiscovery(improper_names_priority_high_to_low,
                                improper2priority)

\* Three explicit angles were sorted: the last one discovered has the highest
\* priority and the first two, of equal priority, were discovered in the
\* order opposite to the alphabet.
C23_Witness ==
  /\ pc = "out_dihedral"
  /\ angle2priority = <<<<"h1,h1", <<FALSE, 0>> >>, <<"c4,h1", <<FALSE, 0>> >>,
                        <<"X,c4", <<FALSE, 1>> >> >>
  /\ angle_names_priority_high_to_low =
       <<<<"X,c4", <<FALSE, 1>> >>, <<"h1,h1", <<FALSE, 0>> >>,
         <<"c4,h1", <<FALSE, 0>> >> >>

\* The encoded names of the arguments of the call.
EncodedArgs == MapEncodeAName(fn_args)

\* Entry i (from 0) of the names returned is the encoded argument at the
\* position entry i of the permutation returned names.
NamesFollowPermutation ==
  \A i \in 1..4 : fn_ret.val[1][i] = EncodedArgs[fn_ret.val[2][i] + 1]

\* C24: Class2ImproperNameSort returns names L and a permutation P of
\* {0,1,2,3} with the encoded hub at L[1] and P[1] = 1, the leaves in the
\* order L[0] <= L[2] <= L[3], and L[i] the encoded argument at position P[i].
C24_Class2SortsLeaves ==
  fn_name = "Class2ImproperNameSort" =>
     /\ fn_ret.err = ""
     /\ fn_ret.val[1][2] = EncodedArgs[2]
     /\ fn_ret.val[2][2] = 1
     /\ StrLeq(fn_ret.val[1][1], fn_ret.val[1][3])
     /\ StrLeq(fn_ret.val[1][3], fn_ret.val[1][4])
     /\ {fn_ret.val[2][i] : i \in 1..4} = 0..3
     /\ NamesFollowPermutation

C26_BaselinesKept ==
  [][(pc # "read" \/ section_name \notin PrimitiveSectionNames)
       => (bond2r0' = bond2r0 /\ angle2theta0' = angle2theta0)]_vars

\* A cross term read the baseline of a recorded bond, and the steps after the
\* loop ran to the end of the improper assembly.
C26_Witness ==
  /\ pc = "convert"
  /\ bond2r0 = <<<<"c4,c4", "1.5">>>>
  /\ dihedral2params_mbt = <<<<"c4,c4,c4,h1", "0.5 0.0 0.0 1.5">>>>

\* The key under which a line of a primitive section stores the bond or the
\* angle of the atom names given.
CanonicalKey(names) == NameOf(ReverseIfEnds(MapEncodeAName(names)))

AdjacentAngles ==
  LET names == MapEncodeAName(PySlice(LastWords, 2, 6))
      abc   == DictGetOr(angle2theta0, CanonicalKey(PySlice(LastWords, 2, 5)))
      bcd   == DictGetOr(angle2theta0, CanonicalKey(PySlice(LastWords, 3, 6)))
  IN  IF StrLess(names[4], names[1]) THEN <<bcd, abc>> ELSE <<abc, bcd>>

\* The last two words of a parameter string.
LastTwo(params) ==
  LET w == WsSplit(params)
  IN  IF Len(w) < 2 THEN <<>> ELSE <<w[Len(w) - 1], w[Len(w)]>>

OwnBaseline(style, params) ==
  IF style = "harmonic" THEN WsSplit(params)[2] ELSE WsSplit(params)[1]

SameKey ==
  {x \in [anames : KeyNameLists, is_auto : BOOLEAN] :
     /\ x # fn_args
     /\ EncodeInteractionName(x.anames, x.is_auto) = fn_ret}

\* C29: the key EncodeInteractionName returns for a list of names and an
\* auto flag gives the list back by ExtractANames and the flag back by
\* IsAutoInteraction, and no other list and flag have the same key.
C29_KeyRoundTrip ==
  fn_name = "EncodeInteractionName" =>
     /\ fn_ret.err = ""
     /\ ExtractANames(fn_ret.val) = fn_args.anames
     /\ IsAutoInteraction(fn_ret.val) = fn_args.is_auto
     /\ SameKey = {}

====
